---- MODULE Spec2Model ----
(***************************************************************************)
(* Model of the task execution engine of Telegram-Downloader               *)
(* (src/performance_utils.py): RateLimiter, async_retry, DownloadMetrics   *)
(* and DownloadPool, run by asyncio's cooperative scheduler.               *)
(*                                                                         *)
(* Time is a discrete clock `now` (the value time.time() returns).  A      *)
(* coroutine runs atomically from one await that suspends to the next, so  *)
(* each action below is one such segment.  asyncio.sleep(d) resumes the    *)
(* coroutine at some time >= (time of the call) + d.                       *)
(***************************************************************************)
EXTENDS Integers, Sequences, FiniteSets, TLC

\* ---------------------------------------------------------------- bounds
MaxTime == 3
MaxProcs == 3
MaxCallers == 2
MaxFloods == 2
MaxCalls == 4
MaxAttempts == 3
MaxRecords == 3
MaxUpdates == 4

\* the shortest time an operation given to the pool takes (asyncio.sleep(0.2)
\* in test_download_pool), in clock ticks
OpMinTime == 1

\* ------------------------------------------------------------- constants
\* flood_wait_until = None
None == -1
\* getattr(e, 'seconds', 60)
DefaultFloodSeconds == 60

Procs == 1..MaxProcs
\* calls_per_second values the constructor is given, as <<numerator, denominator>>
\* calls per clock tick; get_rate_limiter() gives 1.0
DefaultRate == <<1, 1>>
RateChoices == {DefaultRate, <<1, 2>>, <<2, 1>>}
\* burst_size and max_concurrent values the constructors are given
BurstChoices == {1, 2}
\* base_delay values async_retry is given, in clock ticks
DelayChoices == {1, 2}
\* what a wrapped function may return
ReturnValues == {1, 2}
ConcurrencyChoices == {1, 2}
\* the cooldowns (seconds) an overload signal carries
FloodSeconds == {1, 2}
\* the file_size (in units of 1024 * 1024 bytes) and duration values
\* record_download is given; 0 is the default of both
SizeChoices == {0, 1, 2}
DurationChoices == {0, 1}

VARIABLES
    now,        \* time.time()
    limiter,    \* the RateLimiter's fields
    metrics,    \* the DownloadMetrics' fields
    pool,       \* the DownloadPool's fields
    pc,         \* where each coroutine is
    loc,        \* each coroutine's local variables
    batch,      \* the download_batch call: its state, its tasks, what it returned
    nCallers,   \* how many coroutines call acquire() directly
    hist,       \* ghost: every call acquire() has recorded, in order
    floods,     \* ghost: the set_flood_wait calls: how many, and the latest time + seconds
    retry,      \* one call of a function wrapped by async_retry
    recorded,   \* ghost: the record_download calls since the metrics' creation or reset
    stats,      \* the latest call of get_statistics: what it was given, what it returned
    tracker,    \* a ProgressTracker's fields, and what it reported
    heap,       \* the RateLimiter objects get_rate_limiter() has built
    global_rate_limiter,    \* _global_rate_limiter: None, or a reference into heap
    pools,      \* the DownloadPools built without a limiter of their own
    func        \* the function async_retry wraps, when the model runs its body

vars == <<now, limiter, metrics, pool, pc, loc, batch, nCallers, hist, floods, retry, recorded,
         stats, tracker, heap, global_rate_limiter, pools, func>>

\* ------------------------------------------------------------ exceptions
\* An exception: its type's __name__ (as a sequence of words) and its
\* `seconds` attribute, when it has one.
ValueError == [name |-> <<"Value", "Error">>, has_seconds |-> FALSE, seconds |-> 0]
IndexError == [name |-> <<"Index", "Error">>, has_seconds |-> FALSE, seconds |-> 0]
FloodWaitError(s) == [name |-> <<"Flood", "Wait", "Error">>, has_seconds |-> TRUE, seconds |-> s]
\* a subclass named SlowModeFloodWaitError that carries no `seconds`
BareFloodWaitError ==
    [name |-> <<"Slow", "Mode", "Flood", "Wait", "Error">>, has_seconds |-> FALSE, seconds |-> 0]
NoException == [name |-> <<>>, has_seconds |-> FALSE, seconds |-> 0]

\* what an operation given to the pool may raise
OpExceptions == {ValueError, BareFloodWaitError, FloodWaitError(1)}

\* 'FloodWaitError' in str(type(e).__name__)
ContainsFloodWaitError(name) ==
    \E i \in 1..Len(name) :
        i + 2 <= Len(name) /\ SubSeq(name, i, i + 2) = <<"Flood", "Wait", "Error">>

\* how a call ended: kind is "none" (not ended), "return" or "raise"
NoOutcome == [kind |-> "none", val |-> 0, exc |-> NoException]
Returned(v) == [kind |-> "return", val |-> v, exc |-> NoException]
Raised(e) == [kind |-> "raise", val |-> 0, exc |-> e]

\* ------------------------------------------------------------ RateLimiter

\* RateLimiter.__init__
RateLimiterInit(cps, burst, adapt) ==
    [calls_per_second |-> cps, burst_size |-> burst, adaptive |-> adapt,
     call_times |-> <<>>, flood_wait_until |-> None]

\* mutant of DequeAppend: a deque without maxlen
DequeAppendUnbounded(dq, x, m) == Append(dq, x)

\* mutant of DequeAppend: appendleft, which drops the entry at the other end
DequeAppendLeft(dq, x, m) ==
    IF m = 0 THEN <<>>
    ELSE IF Len(dq) >= m THEN <<x>> \o SubSeq(dq, 1, m - 1)
    ELSE <<x>> \o dq

\* deque(maxlen=m).append(x): the oldest entry is dropped when m are stored
DequeAppend(dq, x, m) ==
    IF m = 0 THEN <<>>
    ELSE IF Len(dq) >= m THEN Append(Tail(dq), x)
    ELSE Append(dq, x)

\* mutant of RecordCall: acquire() returns without recording the call
RecordCallDropped(lim, t) == [st |-> "returned", wake |-> <<0, 1>>, lim |-> lim]

\* acquire(), "Record this call": self.call_times.append(now)
RecordCall(lim, t) ==
    [st |-> "returned", wake |-> <<0, 1>>,
     lim |-> [lim EXCEPT !.call_times = DequeAppend(@, t, lim.burst_size)]]

\* mutant of BurstCheck: the required window is that of a single call
BurstCheckOneCall(lim, t) ==
    IF Len(lim.call_times) >= lim.burst_size
    THEN IF lim.call_times = <<>>
         THEN [st |-> "raised", wake |-> <<0, 1>>, lim |-> lim]
         ELSE LET oldest_call == lim.call_times[1]
                  time_window == t - oldest_call
                  num == lim.calls_per_second[1]
                  den == lim.calls_per_second[2]
              IN  IF time_window * num < den
                  THEN [st |-> "burst_sleep",
                        wake |-> <<oldest_call * num + den, num>>,
                        lim |-> lim]
                  ELSE RecordCall(lim, t)
    ELSE RecordCall(lim, t)

\* acquire(), "Check burst limit", entered at time t.  The sleep of
\* required_window - time_window started at t ends at oldest_call +
\* burst_size / calls_per_second, kept as the fraction wake[1] / wake[2].
BurstCheck(lim, t) ==
    IF Len(lim.call_times) >= lim.burst_size
    THEN IF lim.call_times = <<>>
         THEN [st |-> "raised", wake |-> <<0, 1>>, lim |-> lim]   \* call_times[0]: IndexError
         ELSE LET oldest_call == lim.call_times[1]
                  time_window == t - oldest_call
                  num == lim.calls_per_second[1]
                  den == lim.calls_per_second[2]
              IN  IF time_window * num < lim.burst_size * den
                  THEN [st |-> "burst_sleep",
                        wake |-> <<oldest_call * num + lim.burst_size * den, num>>,
                        lim |-> lim]
                  ELSE RecordCall(lim, t)
    ELSE RecordCall(lim, t)

\* acquire() from its first line, called at time t
AcquireEnter(lim, t) ==
    IF lim.flood_wait_until # None /\ t < lim.flood_wait_until
    THEN [st |-> "flood_sleep", wake |-> <<lim.flood_wait_until, 1>>, lim |-> lim]
    ELSE BurstCheck(lim, t)

\* acquire() resumed at time t from the flood-wait sleep
AcquireAfterFlood(lim, t) ==
    BurstCheck([lim EXCEPT !.flood_wait_until = None], t)

\* acquire() resumed at time t from the burst sleep
AcquireAfterBurst(lim, t) == RecordCall(lim, t)

\* a sleep that ends at wake[1] / wake[2] may resume at time t
Due(wake, t) == t * wake[2] >= wake[1]

\* set_flood_wait(seconds), called at time t
SetFloodWaitOn(lim, t, seconds) ==
    LET l1 == [lim EXCEPT !.flood_wait_until = t + seconds + 1]
    IN  IF l1.adaptive /\ l1.calls_per_second[1] * 10 > l1.calls_per_second[2]
        THEN [l1 EXCEPT !.calls_per_second = <<@[1] * 8, @[2] * 10>>]
        ELSE l1

\* mutant of ResetOn: reset() restores the default rate
ResetOnRestoringRate(lim) ==
    [lim EXCEPT !.call_times = <<>>, !.flood_wait_until = None,
                !.calls_per_second = DefaultRate]

\* reset()
ResetOn(lim) == [lim EXCEPT !.call_times = <<>>, !.flood_wait_until = None]

\* ------------------------------------------------------------ async_retry

\* asyncio.CancelledError: a BaseException, no instance of Exception
CancelledError == [name |-> <<"Cancelled", "Error">>, has_seconds |-> FALSE, seconds |-> 0]

\* the instances of Exception among the exceptions of the model: what the
\* default catch_exceptions=(Exception,) catches
ExceptionInstances == {ValueError, IndexError, BareFloodWaitError, FloodWaitError(1)}

\* mutant of IsInstance: every exception is caught
IsInstanceOfAny(e, catch) == TRUE

\* isinstance(e, catch_exceptions)
IsInstance(e, catch) == e \in catch

\* A call of the wrapper async_retry(max_attempts, base_delay, exponential,
\* catch_exceptions) builds.  pc: "idle" (not called), "running" (in func),
\* "sleep" (in the backoff sleep), "returned", "raised".  Ghosts: calls (how
\* often func was invoked), outs (how each invocation ended), delays (the
\* backoff sleeps made), elapsed (how long each sleep lasted), result (how the
\* wrapper ended).
RetryInit(m, d, x, c) ==
    [max_attempts |-> m, base_delay |-> d, exponential |-> x, catch_exceptions |-> c,
     pc |-> "idle", attempt |-> 0, wake |-> 0,
     calls |-> 0, outs |-> <<>>, delays |-> <<>>, elapsed |-> <<>>,
     result |-> NoOutcome]

\* the wrapper is not part of this scenario
NoRetry == RetryInit(0, 0, FALSE, {})

\* 2 ** n
RECURSIVE Pow2(_)
Pow2(n) == IF n <= 0 THEN 1 ELSE 2 * Pow2(n - 1)

\* mutant of RetryDelay: the delay does not grow
RetryDelayConstant(r) == r.base_delay

\* "Calculate delay"
RetryDelay(r) ==
    IF r.exponential THEN r.base_delay * Pow2(r.attempt - 1) ELSE r.base_delay

\* mutant of LastAttempt: the attempts end one early
LastAttemptOneEarly(r) == r.attempt >= r.max_attempts - 1

\* if attempt == max_attempts
LastAttempt(r) == r.attempt = r.max_attempts

\* the wrapper is called: the first turn of `for attempt in range(1,
\* max_attempts + 1)` invokes func; an empty range ends the wrapper, which
\* returns None (val 0)
RetryCall ==
    /\ retry.pc = "idle"
    /\ retry' = IF retry.max_attempts >= 1
                THEN [retry EXCEPT !.pc = "running", !.attempt = 1, !.calls = @ + 1]
                ELSE [retry EXCEPT !.pc = "returned", !.result = Returned(0)]
    /\ UNCHANGED <<now, limiter, metrics, recorded, pool, pc, loc, batch, nCallers, func, heap, global_rate_limiter, pools, hist, floods,
                 stats, tracker>>

\* the body of a wrapped function, when the model runs it: name (which
\* function), pc (where its body is), confirm (leave_group's argument),
\* request (the leave request it issued).
\* Ghosts: runs (how often the body was entered), requests (the leave requests
\* issued), raised (the exceptions raised inside the body).
FuncInit(name, confirm) ==
    [name |-> name, pc |-> "idle", confirm |-> confirm, request |-> "",
     runs |-> 0, requests |-> 0, raised |-> <<>>]

\* the body of the wrapped function is not part of this scenario
NoFunc == FuncInit("", FALSE)

\* `return await func(*args, **kwargs)` when func returned v
WrapperReturns(r, v) ==
    [r EXCEPT !.pc = "returned", !.result = Returned(v), !.outs = Append(@, Returned(v))]

\* func raised e at time t: the except clause, up to the raise or the backoff
\* sleep
WrapperRaises(r, e, t) ==
    LET r1 == [r EXCEPT !.outs = Append(@, Raised(e))]
    IN  IF ~IsInstance(e, r1.catch_exceptions) \/ LastAttempt(r1)
        THEN [r1 EXCEPT !.pc = "raised", !.result = Raised(e)]
        ELSE [r1 EXCEPT !.pc = "sleep", !.wake = t + RetryDelay(r1),
                        !.delays = Append(@, RetryDelay(r1))]

\* func returns v: return await func(*args, **kwargs)
RetryFuncReturns(v) ==
    /\ retry.pc = "running"
    /\ retry' = WrapperReturns(retry, v)
    /\ UNCHANGED <<now, limiter, metrics, recorded, pool, pc, loc, batch, nCallers, func, heap,
                   global_rate_limiter, pools, hist, floods, stats, tracker>>

\* func raises e: the except clause, up to the raise or the backoff sleep
RetryFuncRaises(e) ==
    /\ retry.pc = "running"
    /\ retry' = WrapperRaises(retry, e, now)
    /\ UNCHANGED <<now, limiter, metrics, recorded, pool, pc, loc, batch, nCallers, func, heap,
                   global_rate_limiter, pools, hist, floods, stats, tracker>>

\* asyncio.sleep(delay) ends: the next turn of the loop invokes func
RetryWake ==
    /\ retry.pc = "sleep"
    /\ now >= retry.wake
    /\ LET slept_from == retry.wake - retry.delays[Len(retry.delays)]
       IN  retry' = [retry EXCEPT !.pc = "running", !.attempt = @ + 1, !.calls = @ + 1,
                                  !.elapsed = Append(@, now - slept_from)]
    /\ UNCHANGED <<now, limiter, metrics, recorded, pool, pc, loc, batch, nCallers, func, heap, global_rate_limiter, pools, hist, floods,
                 stats, tracker>>

\* -------------------------------------------------------- DownloadMetrics

\* DownloadMetrics.__init__ at time t
DownloadMetricsAt(t) ==
    [total_downloads |-> 0, successful_downloads |-> 0, failed_downloads |-> 0,
     total_bytes |-> 0, start_time |-> t, download_times |-> <<>>]

\* a DownloadMetrics created at time 0
DownloadMetricsInit == DownloadMetricsAt(0)

\* mutant of RecordDownload: a failure overwrites total_downloads with a
\* value read before the successes were counted
RecordDownloadStaleTotal(m, success, file_size, duration) ==
    IF success
    THEN [m EXCEPT !.total_downloads = @ + 1,
                   !.successful_downloads = @ + 1,
                   !.total_bytes = @ + file_size,
                   !.download_times = IF duration > 0 THEN Append(@, duration) ELSE @]
    ELSE [m EXCEPT !.total_downloads = m.failed_downloads + 1,
                   !.failed_downloads = @ + 1]

\* mutant of RecordDownload: the bytes of a failed download are counted
RecordDownloadBytesAlways(m, success, file_size, duration) ==
    LET m1 == [m EXCEPT !.total_downloads = @ + 1, !.total_bytes = @ + file_size]
    IN  IF success
        THEN [m1 EXCEPT !.successful_downloads = @ + 1,
                        !.download_times =
                            IF duration > 0 THEN Append(@, duration) ELSE @]
        ELSE [m1 EXCEPT !.failed_downloads = @ + 1]

\* DownloadMetrics.record_download(success, file_size, duration)
RecordDownload(m, success, file_size, duration) ==
    LET m1 == [m EXCEPT !.total_downloads = @ + 1]
    IN  IF success
        THEN [m1 EXCEPT !.successful_downloads = @ + 1,
                        !.total_bytes = @ + file_size,
                        !.download_times =
                            IF duration > 0 THEN Append(@, duration) ELSE @]
        ELSE [m1 EXCEPT !.failed_downloads = @ + 1]

\* mutant of MetricsResetOn: the durations are kept
MetricsResetKeepsTimes(m, t) ==
    [DownloadMetricsAt(t) EXCEPT !.download_times = m.download_times]

\* DownloadMetrics.reset() at time t
MetricsResetOn(m, t) == DownloadMetricsAt(t)

\* ghost: the calls of record_download, after one more
Recorded(rec, success, file_size) ==
    Append(rec, [success |-> success, file_size |-> file_size])

\* sum(sq)
RECURSIVE Sum(_)
Sum(sq) == IF sq = <<>> THEN 0 ELSE Head(sq) + Sum(Tail(sq))

\* min(sq) and max(sq) of a sequence that is not empty
Min(sq) == CHOOSE x \in {sq[i] : i \in 1..Len(sq)} : \A i \in 1..Len(sq) : x <= sq[i]
Max(sq) == CHOOSE x \in {sq[i] : i \in 1..Len(sq)} : \A i \in 1..Len(sq) : x >= sq[i]

\* ZeroDivisionError, and what a division that raises it yields
ZeroDivisionError == [name |-> <<"Zero", "Division", "Error">>, has_seconds |-> FALSE, seconds |-> 0]
Undefined == <<0, 0>>

\* a / b, as the fraction <<a, b>>
Quot(a, b) == IF b = 0 THEN Undefined ELSE <<a, b>>

\* mutant of SuccessRate: the guard on total_downloads is missing
SuccessRateUnguarded(m) == Quot(m.successful_downloads * 100, m.total_downloads)

\* get_statistics: "success_rate"
SuccessRate(m) ==
    IF m.total_downloads > 0
    THEN Quot(m.successful_downloads * 100, m.total_downloads)
    ELSE <<0, 1>>

\* get_statistics: "average_speed_mbps"; total_bytes is in units of
\* 1024 * 1024 bytes
AverageSpeed(m, elapsed) ==
    IF elapsed > 0 THEN Quot(m.total_bytes, elapsed) ELSE <<0, 1>>

\* get_statistics(), elapsed seconds after start_time: the dictionary it
\* returns (has_times: the three download time entries are there), or the
\* ZeroDivisionError it raises
GetStatistics(m, elapsed) ==
    LET has_times == m.download_times # <<>>
        avg == IF has_times
               THEN Quot(Sum(m.download_times), Len(m.download_times))
               ELSE <<0, 1>>
        d == [total_downloads |-> m.total_downloads,
              successful |-> m.successful_downloads,
              failed |-> m.failed_downloads,
              success_rate |-> SuccessRate(m),
              total_bytes |-> m.total_bytes,
              elapsed_seconds |-> elapsed,
              average_speed_mbps |-> AverageSpeed(m, elapsed),
              has_times |-> has_times,
              avg_download_time |-> avg,
              min_download_time |-> IF has_times THEN Min(m.download_times) ELSE 0,
              max_download_time |-> IF has_times THEN Max(m.download_times) ELSE 0]
    IN  IF Undefined \in {d.success_rate, d.average_speed_mbps, d.avg_download_time}
        THEN Raised(ZeroDivisionError)
        ELSE [kind |-> "return", val |-> d, exc |-> NoException]

\* mutant of StatisticsRead: reading starts a new measuring period
StatisticsReadResets(m) == DownloadMetricsAt(m.start_time)

\* get_statistics(): the fields of the DownloadMetrics afterwards (it assigns
\* to none of them)
StatisticsRead(m) == m

\* get_statistics has not been called
NoStats == [called |-> FALSE, of |-> DownloadMetricsInit, elapsed |-> 0, ret |-> NoOutcome]

\* -------------------------------------------------------- ProgressTracker

\* ProgressTracker(total), created at time t.  Ghosts: updates (the
\* increments update() was given), reports (what _log_progress logged),
\* summaries (what complete() logged), raised (a call raised).
ProgressTrackerInit(total, t) ==
    [total |-> total, current |-> 0, start_time |-> t,
     updates |-> <<>>, reports |-> <<>>, summaries |-> <<>>, raised |-> FALSE]

\* no ProgressTracker
NoTracker == ProgressTrackerInit(None, None)

\* int(n / d) for d > 0: the fraction rounded towards zero
Trunc(n, d) == IF n >= 0 THEN n \div d ELSE -((-n) \div d)

\* eta = "unknown"
UnknownEta == [known |-> FALSE, seconds |-> 0]

\* _log_progress() at time t: the reports afterwards
LogProgress(tr, t) ==
    IF tr.total = 0
    THEN tr.reports
    ELSE LET percentage == Quot(tr.current * 100, tr.total)
             elapsed == t - tr.start_time
             eta == IF tr.current > 0
                    THEN \* (elapsed / current) * total - elapsed
                         [known |-> TRUE,
                          seconds |-> Trunc(elapsed * tr.total - elapsed * tr.current,
                                            tr.current)]
                    ELSE UnknownEta
         IN  Append(tr.reports,
                    [current |-> tr.current, total |-> tr.total,
                     percentage |-> percentage, elapsed |-> elapsed, eta |-> eta])

\* update(increment) at time t
UpdateOn(tr, increment, t) ==
    LET t1 == [tr EXCEPT !.current = @ + increment, !.updates = Append(@, increment)]
    IN  [t1 EXCEPT !.reports = LogProgress(t1, t)]

\* complete() at time t
CompleteOn(tr, t) ==
    [tr EXCEPT !.summaries =
        Append(@, [current |-> tr.current, total |-> tr.total, elapsed |-> t - tr.start_time])]

\* ------------------------------------------------------------- coroutines

\* asyncio.Semaphore(value): ValueError for a negative value
SemaphoreNew(value) == IF value < 0 THEN Raised(ValueError) ELSE Returned(value)

\* DownloadPool(max_concurrent=c): what the constructor does; it fails only
\* where asyncio.Semaphore does
DownloadPoolNew(c) == SemaphoreNew(c)

\* no pool: the constructor raised
NoPool == [max_concurrent |-> None, semaphore |-> None, active_downloads |-> None]

\* {}
EmptyKwargs == [k \in {} |-> 0]

\* kwargs.get(key, default)
KwargsGet(kwargs, key, default) == IF key \in DOMAIN kwargs THEN kwargs[key] ELSE default

\* DownloadPool.__init__
DownloadPoolInit(c) == [max_concurrent |-> c, semaphore |-> c, active_downloads |-> 0]

\* A coroutine's locals.  ctx: "acquire" for a direct caller of
\* rate_limiter.acquire(), "download" for a DownloadPool.download() call.
\* wake: the end of the sleep it is in.  start_time: download()'s.
\* Ghosts: due (the end of the cooldowns notified and not over when it called
\* acquire, else 0), slept (acquire suspended it),
\* opStart, invoked (how often its operation was called), opOut (what the
\* operation did), exit (how download() ended), notified (the seconds it gave
\* set_flood_wait), log (the calls download() made, in order).
\* kwargs: the keyword arguments download() is given for the operation ({}
\* from export_media_organized); hint: the file size its task was built for.
\* pool: which of `pools` its download() belongs to (0: none);
\* rate_limiter: the reference get_rate_limiter() gave a direct caller;
\* seen (ghost): the flood_wait_until its acquire() found in force, else 0.
LocInit(c) ==
    [ctx |-> c, wake |-> <<0, 1>>, start_time |-> 0, file_size |-> 0,
     kwargs |-> EmptyKwargs, hint |-> 0,
     pool |-> 0, rate_limiter |-> None, seen |-> 0,
     due |-> 0, slept |-> FALSE, opStart |-> 0, invoked |-> 0,
     opOut |-> NoOutcome, exit |-> NoOutcome, notified |-> None, log |-> <<>>]

\* ghost: the record of set_flood_wait calls after one of `seconds` at time t
\* (end: the latest t + seconds; last: the deadline the latest call installed)
NoFloods == [n |-> 0, end |-> 0, last |-> None]
Notified(f, t, seconds) ==
    [n |-> f.n + 1, end |-> IF t + seconds > f.end THEN t + seconds ELSE f.end,
     last |-> t + seconds + 1]
\* ghost: the time before which an acquire() called at time t must not record
\* its call, given the cooldowns notified so far (0: no cooldown is running)
CooldownEnd(f, t) == IF t < f.end THEN f.end ELSE 0

\* RETRY_MAX_ATTEMPTS of config.py
RETRY_MAX_ATTEMPTS == 3

\* the calls of acquire() begun and not yet recorded
InAcquire == {p \in Procs : pc[p] \in {"acq_flood", "acq_burst"}}

\* mutant of ExceptBlock: the overload signal is recognised by the exact type
\* name only
ExceptBlockExactName(lim, met, l, t, e) ==
    LET flood == e.name = <<"Flood", "Wait", "Error">>
        wait_seconds == IF e.has_seconds THEN e.seconds ELSE DefaultFloodSeconds
        duration == t - l.start_time
    IN  [lim |-> IF flood THEN SetFloodWaitOn(lim, t, wait_seconds) ELSE lim,
         met |-> RecordDownload(met, FALSE, 0, duration),
         flood |-> flood,
         wait_seconds |-> wait_seconds,
         log |-> (IF flood THEN <<"set_flood_wait">> ELSE <<>>)
                 \o <<"record_download", "raise">>]

\* mutant of ExceptBlock: every failure is taken for the overload signal
ExceptBlockAnyFailure(lim, met, l, t, e) ==
    LET wait_seconds == IF e.has_seconds THEN e.seconds ELSE DefaultFloodSeconds
        duration == t - l.start_time
    IN  [lim |-> SetFloodWaitOn(lim, t, wait_seconds),
         met |-> RecordDownload(met, FALSE, 0, duration),
         flood |-> ContainsFloodWaitError(e.name),
         wait_seconds |-> wait_seconds,
         log |-> <<"set_flood_wait", "record_download", "raise">>]

\* download(), the except block, run at time t for the exception e by a
\* coroutine with locals l: the limiter and the metrics afterwards, and the
\* calls made, in order (wait_seconds is what set_flood_wait was given)
ExceptBlock(lim, met, l, t, e) ==
    LET flood == ContainsFloodWaitError(e.name)
        wait_seconds == IF e.has_seconds THEN e.seconds ELSE DefaultFloodSeconds
        duration == t - l.start_time
    IN  [lim |-> IF flood THEN SetFloodWaitOn(lim, t, wait_seconds) ELSE lim,
         met |-> RecordDownload(met, FALSE, 0, duration),
         flood |-> flood,
         wait_seconds |-> wait_seconds,
         log |-> (IF flood THEN <<"set_flood_wait">> ELSE <<>>)
                 \o <<"record_download", "raise">>]

\* mutant of SlotFree: the semaphore is not consulted
SlotFreeAlways(pl) == TRUE

\* async with self.semaphore, on entry: a slot is free
SlotFree(pl) == pl.semaphore > 0

\* async with self.semaphore: / self.active_downloads += 1
TakeSlot(pl) == [pl EXCEPT !.semaphore = @ - 1, !.active_downloads = @ + 1]

\* mutant of GiveSlot: the semaphore is not released
GiveSlotKeepsSemaphore(pl) == [pl EXCEPT !.active_downloads = @ - 1]

\* finally: self.active_downloads -= 1, and the end of the async with
GiveSlot(pl) == [pl EXCEPT !.active_downloads = @ - 1, !.semaphore = @ + 1]

\* mutant of Unwind: the slot stays taken
UnwindLeak(pl) == pl

\* an exception that the except clause does not handle leaves download():
\* the finally block, and the end of the async with
Unwind(pl) == GiveSlot(pl)

\* mutant of ExceptCatches: a bare except
ExceptCatchesAll(e) == TRUE

\* except Exception as e: the exceptions the clause handles
ExceptCatches(e) == IsInstance(e, ExceptionInstances)

\* ghost: the order in which the tasks of the batch finish
Finished(bt, p) == IF p <= bt.n THEN [bt EXCEPT !.order = Append(@, p)] ELSE bt

\* download() of coroutine p (locals l, pool pl) leaves with the exception e:
\* the except block, the finally block and the release of the semaphore
DownloadFails(p, lim, l, pl, e) ==
    LET x == ExceptBlock(lim, metrics, l, now, e)
    IN  /\ limiter' = x.lim
        /\ metrics' = x.met
        /\ recorded' = Recorded(recorded, FALSE, 0)
        /\ floods' = IF x.flood THEN Notified(floods, now, x.wait_seconds) ELSE floods
        /\ pool' = GiveSlot(pl)
        /\ pc' = [pc EXCEPT ![p] = "done"]
        /\ loc' = [loc EXCEPT ![p] =
                     [l EXCEPT !.exit = Raised(e),
                               !.notified = IF x.flood THEN x.wait_seconds ELSE None,
                               !.log = @ \o x.log \o <<"release">>]]
        /\ batch' = Finished(batch, p)

\* What follows a segment of acquire() run by coroutine p with result r
\* (of AcquireEnter, AcquireAfterFlood or AcquireAfterBurst), locals l and
\* pool pl.
AfterAcquire(p, r, l, pl) ==
    CASE r.st = "flood_sleep" ->
            /\ limiter' = r.lim
            /\ pool' = pl
            /\ pc' = [pc EXCEPT ![p] = "acq_flood"]
            /\ loc' = [loc EXCEPT ![p] = [l EXCEPT !.wake = r.wake, !.slept = TRUE]]
            /\ UNCHANGED <<metrics, recorded, batch, hist, floods>>
      [] r.st = "burst_sleep" ->
            /\ limiter' = r.lim
            /\ pool' = pl
            /\ pc' = [pc EXCEPT ![p] = "acq_burst"]
            /\ loc' = [loc EXCEPT ![p] = [l EXCEPT !.wake = r.wake, !.slept = TRUE]]
            /\ UNCHANGED <<metrics, recorded, batch, hist, floods>>
      [] r.st = "returned" ->
            /\ limiter' = r.lim
            /\ pool' = pl
            /\ hist' = Append(hist, [t |-> now, slept |-> l.slept, due |-> l.due])
            /\ IF l.ctx = "acquire"
               THEN /\ pc' = [pc EXCEPT ![p] = "idle"]
                    /\ loc' = [loc EXCEPT ![p] = l]
               ELSE \* result = await download_func(*args, **kwargs)
                    /\ pc' = [pc EXCEPT ![p] = "op"]
                    /\ loc' = [loc EXCEPT ![p] =
                                 [l EXCEPT !.opStart = now, !.invoked = @ + 1,
                                           !.log = @ \o <<"token", "invoke">>]]
            /\ UNCHANGED <<metrics, recorded, batch, floods>>
      [] OTHER ->   \* acquire() raised IndexError
            IF l.ctx = "acquire"
            THEN /\ pc' = [pc EXCEPT ![p] = "failed"]
                 /\ loc' = [loc EXCEPT ![p] = [l EXCEPT !.exit = Raised(IndexError)]]
                 /\ limiter' = r.lim
                 /\ pool' = pl
                 /\ UNCHANGED <<metrics, recorded, batch, hist, floods>>
            ELSE /\ DownloadFails(p, r.lim, l, pl, IndexError)
                 /\ UNCHANGED hist

\* time passes, while a coroutine is there to see it
Tick ==
    /\ now < MaxTime
    /\ \/ \E p \in Procs : pc[p] \in {"idle", "acq_flood", "acq_burst", "op"}
       \/ retry.pc \in {"running", "sleep"}
       \/ tracker # NoTracker
    /\ now' = now + 1
    /\ UNCHANGED <<limiter, metrics, recorded, pool, pc, loc, batch, nCallers, func, heap, global_rate_limiter, pools, hist, floods, retry, stats, tracker>>

\* a coroutine calls rate_limiter.acquire() (as forward_conversation does)
CallAcquire(p) ==
    /\ pc[p] = "idle"
    /\ Len(hist) + Cardinality(InAcquire) < MaxCalls
    /\ AfterAcquire(p, AcquireEnter(limiter, now),
                    [loc[p] EXCEPT !.due = CooldownEnd(floods, now), !.slept = FALSE],
                    pool)
    /\ UNCHANGED <<now, nCallers, func, heap, global_rate_limiter, pools, retry, stats, tracker>>

\* asyncio.sleep(wait_time) of the flood wait ends
WakeFromFloodWait(p) ==
    /\ pc[p] = "acq_flood"
    /\ Due(loc[p].wake, now)
    /\ AfterAcquire(p, AcquireAfterFlood(limiter, now), loc[p], pool)
    /\ UNCHANGED <<now, nCallers, func, heap, global_rate_limiter, pools, retry, stats, tracker>>

\* asyncio.sleep(sleep_time) of the burst limit ends
WakeFromBurstWait(p) ==
    /\ pc[p] = "acq_burst"
    /\ Due(loc[p].wake, now)
    /\ AfterAcquire(p, AcquireAfterBurst(limiter, now), loc[p], pool)
    /\ UNCHANGED <<now, nCallers, func, heap, global_rate_limiter, pools, retry, stats, tracker>>

\* somebody calls rate_limiter.set_flood_wait(s)
SetFloodWait(s) ==
    /\ floods.n < MaxFloods
    /\ limiter' = SetFloodWaitOn(limiter, now, s)
    /\ floods' = Notified(floods, now, s)
    /\ UNCHANGED <<now, metrics, recorded, pool, pc, loc, batch, nCallers, func, heap, global_rate_limiter, pools, hist, retry, stats, tracker>>

\* no pool shares the global limiter: get_rate_limiter() was never called
NoSharing == heap = <<>> /\ global_rate_limiter = None /\ pools = <<>>

NoBatch == [pc |-> "none", n |-> 0, start |-> 0, end |-> 0, order |-> <<>>, ret |-> <<>>]

\* One limiter shared by 1..MaxCallers coroutines that call acquire() again
\* and again, and by callers of set_flood_wait.
InitLimiter ==
    /\ now = 0
    /\ NoSharing
    /\ \E cps \in RateChoices, b \in BurstChoices :
           limiter = RateLimiterInit(cps, b, TRUE)
    /\ nCallers \in 1..MaxCallers
    /\ pc = [p \in Procs |-> IF p <= nCallers THEN "idle" ELSE "off"]
    /\ loc = [p \in Procs |-> LocInit("acquire")]
    /\ metrics = DownloadMetricsInit
    /\ recorded = <<>>
    /\ stats = NoStats
    /\ tracker = NoTracker
    /\ pool = DownloadPoolInit(1)
    /\ batch = NoBatch
    /\ hist = <<>>
    /\ floods = NoFloods
    /\ retry = NoRetry
    /\ func = NoFunc

NextLimiter ==
    \/ Tick
    \/ \E p \in Procs : CallAcquire(p)
    \/ \E p \in Procs : WakeFromFloodWait(p)
    \/ \E p \in Procs : WakeFromBurstWait(p)
    \/ \E s \in FloodSeconds : SetFloodWait(s)

SpecLimiter == InitLimiter /\ [][NextLimiter]_vars

\* One coroutine that calls acquire() again and again; nobody calls
\* set_flood_wait.
InitSequential == InitLimiter /\ nCallers = 1

NextSequential ==
    \/ Tick
    \/ CallAcquire(1)
    \/ WakeFromBurstWait(1)

SpecSequential == InitSequential /\ [][NextSequential]_vars

\* somebody calls rate_limiter.reset()
Reset ==
    /\ limiter' = ResetOn(limiter)
    /\ UNCHANGED <<now, metrics, recorded, pool, pc, loc, batch, nCallers, func, heap, global_rate_limiter, pools, hist, floods, retry, stats, tracker>>

\* calls_per_second values at and just above 0.1, and the default
LowRateChoices == {DefaultRate, <<1, 10>>, <<3, 25>>}
\* burst_size values from 0
BurstSizes == {0} \cup BurstChoices

\* One limiter, adaptive or not, built with any of these arguments, used by
\* one coroutine that calls acquire() again and again and by callers of
\* set_flood_wait and reset.
InitOneCaller ==
    /\ now = 0
    /\ NoSharing
    /\ \E cps \in LowRateChoices, b \in BurstSizes, adapt \in BOOLEAN :
           limiter = RateLimiterInit(cps, b, adapt)
    /\ nCallers = 1
    /\ pc = [p \in Procs |-> IF p <= nCallers THEN "idle" ELSE "off"]
    /\ loc = [p \in Procs |-> LocInit("acquire")]
    /\ metrics = DownloadMetricsInit
    /\ recorded = <<>>
    /\ stats = NoStats
    /\ tracker = NoTracker
    /\ pool = DownloadPoolInit(1)
    /\ batch = NoBatch
    /\ hist = <<>>
    /\ floods = NoFloods
    /\ retry = NoRetry
    /\ func = NoFunc

NextOneCaller ==
    \/ Tick
    \/ CallAcquire(1)
    \/ WakeFromFloodWait(1)
    \/ WakeFromBurstWait(1)
    \/ \E s \in FloodSeconds : SetFloodWait(s)
    \/ Reset

SpecOneCaller == InitOneCaller /\ [][NextOneCaller]_vars

\* -------------------------------------------------------- DownloadPool

\* download_batch(download_tasks) is called with batch.n tasks: the
\* coroutines are created and handed to asyncio.gather
DownloadBatch ==
    /\ batch.pc = "none"
    /\ batch' = [batch EXCEPT !.pc = "gather", !.start = now]
    /\ pc' = [p \in Procs |-> IF p <= batch.n THEN "start" ELSE pc[p]]
    /\ UNCHANGED <<now, limiter, metrics, recorded, pool, loc, nCallers, func, heap, global_rate_limiter, pools, hist, floods, retry, stats, tracker>>

\* download() gets its slot and runs up to its first suspension: in
\* acquire(), or in the operation
DownloadEnter(p) ==
    /\ pc[p] = "start"
    /\ SlotFree(pool)
    /\ AfterAcquire(p, AcquireEnter(limiter, now),
                    [loc[p] EXCEPT !.start_time = now,
                                   !.due = CooldownEnd(floods, now),
                                   !.log = <<"slot">>],
                    TakeSlot(pool))
    /\ UNCHANGED <<now, nCallers, func, heap, global_rate_limiter, pools, retry, stats, tracker>>

\* the operation returns: download() records the success and returns
OpReturns(p) ==
    /\ pc[p] = "op"
    /\ now - loc[p].opStart >= OpMinTime
    /\ LET duration == now - loc[p].start_time
           file_size == KwargsGet(loc[p].kwargs, "file_size", 0)
       IN  /\ metrics' = RecordDownload(metrics, TRUE, file_size, duration)
           /\ recorded' = Recorded(recorded, TRUE, file_size)
           /\ loc' = [loc EXCEPT ![p] =
                        [@ EXCEPT !.opOut = Returned(p), !.exit = Returned(p),
                                  !.file_size = file_size,
                                  !.log = @ \o <<"record_download", "return", "release">>]]
    /\ pool' = GiveSlot(pool)
    /\ pc' = [pc EXCEPT ![p] = "done"]
    /\ batch' = Finished(batch, p)
    /\ UNCHANGED <<now, limiter, nCallers, func, heap, global_rate_limiter, pools, hist, floods, retry, stats, tracker>>

\* the operation raises e: download() runs its except block and re-raises
OpRaises(p, e) ==
    /\ pc[p] = "op"
    /\ now - loc[p].opStart >= OpMinTime
    /\ DownloadFails(p, limiter, [loc[p] EXCEPT !.opOut = Raised(e)], pool, e)
    /\ UNCHANGED <<now, nCallers, func, heap, global_rate_limiter, pools, hist, retry, stats, tracker>>

\* The task of coroutine p is cancelled while it is suspended: CancelledError
\* is raised at the await where it waits (for the semaphore, in acquire(), or
\* in the operation).
Cancel(p) ==
    /\ pc[p] \in {"start", "acq_flood", "acq_burst", "op"}
    /\ IF pc[p] = "start"
       THEN \* in the semaphore's acquire: no slot was taken
            /\ pc' = [pc EXCEPT ![p] = "done"]
            /\ loc' = [loc EXCEPT ![p] = [@ EXCEPT !.exit = Raised(CancelledError)]]
            /\ batch' = Finished(batch, p)
            /\ UNCHANGED <<limiter, metrics, recorded, pool, floods>>
       ELSE IF ExceptCatches(CancelledError)
            THEN DownloadFails(p, limiter, loc[p], pool, CancelledError)
            ELSE /\ pool' = Unwind(pool)
                 /\ pc' = [pc EXCEPT ![p] = "done"]
                 /\ loc' = [loc EXCEPT ![p] =
                              [@ EXCEPT !.exit = Raised(CancelledError),
                                        !.log = @ \o <<"release">>]]
                 /\ batch' = Finished(batch, p)
                 /\ UNCHANGED <<limiter, metrics, recorded, floods>>
    /\ UNCHANGED <<now, nCallers, func, heap, global_rate_limiter, pools, hist, retry, stats, tracker>>

\* mutant of GatherDone: gather without return_exceptions, which ends with
\* the first exception
GatherDoneFirstException(bt) ==
    \/ \A p \in 1..bt.n : pc[p] = "done"
    \/ \E p \in 1..bt.n : pc[p] = "done" /\ loc[p].exit.kind = "raise"

\* asyncio.gather(*coroutines, return_exceptions=True) is over
GatherDone(bt) == \A p \in 1..bt.n : pc[p] = "done"

\* mutant of GatherResults: the results in the order of completion
GatherResultsByCompletion(bt, l) == [i \in 1..bt.n |-> l[bt.order[i]].exit]

\* what gather hands back: entry i is what coroutine i returned, or the
\* exception it raised
GatherResults(bt, l) == [i \in 1..bt.n |-> l[i].exit]

\* download_batch returns
DownloadBatchReturn ==
    /\ batch.pc = "gather"
    /\ GatherDone(batch)
    /\ batch' = [batch EXCEPT !.pc = "returned", !.end = now,
                              !.ret = GatherResults(batch, loc)]
    /\ UNCHANGED <<now, limiter, metrics, recorded, pool, pc, loc, nCallers, func, heap, global_rate_limiter, pools, hist, floods, retry, stats, tracker>>

\* A pool, its limiter and its metrics, and the batch of 0..MaxProcs tasks
\* download_batch will be given.
Init ==
    /\ now = 0
    /\ NoSharing
    /\ \E b \in BurstChoices : limiter = RateLimiterInit(DefaultRate, b, TRUE)
    /\ metrics = DownloadMetricsInit
    /\ recorded = <<>>
    /\ stats = NoStats
    /\ tracker = NoTracker
    /\ \E c \in ConcurrencyChoices : pool = DownloadPoolInit(c)
    /\ \E n \in 0..MaxProcs : batch = [NoBatch EXCEPT !.n = n]
    /\ pc = [p \in Procs |-> "off"]
    /\ loc = [p \in Procs |-> LocInit("download")]
    /\ nCallers = 0
    /\ hist = <<>>
    /\ floods = NoFloods
    /\ retry = NoRetry
    /\ func = NoFunc

Next ==
    \/ Tick
    \/ DownloadBatch
    \/ \E p \in Procs : DownloadEnter(p)
    \/ \E p \in Procs : WakeFromFloodWait(p)
    \/ \E p \in Procs : WakeFromBurstWait(p)
    \/ \E p \in Procs : OpReturns(p)
    \/ \E p \in Procs, e \in OpExceptions : OpRaises(p, e)
    \/ DownloadBatchReturn

Spec == Init /\ [][Next]_vars

\* The pool and its batch, on a limiter that is adaptive or not.
InitAdaptive ==
    /\ now = 0
    /\ NoSharing
    /\ \E b \in BurstChoices, adapt \in BOOLEAN :
           limiter = RateLimiterInit(DefaultRate, b, adapt)
    /\ metrics = DownloadMetricsInit
    /\ recorded = <<>>
    /\ stats = NoStats
    /\ tracker = NoTracker
    /\ \E c \in ConcurrencyChoices : pool = DownloadPoolInit(c)
    /\ \E n \in 0..MaxProcs : batch = [NoBatch EXCEPT !.n = n]
    /\ pc = [p \in Procs |-> "off"]
    /\ loc = [p \in Procs |-> LocInit("download")]
    /\ nCallers = 0
    /\ hist = <<>>
    /\ floods = NoFloods
    /\ retry = NoRetry
    /\ func = NoFunc

SpecAdaptive == InitAdaptive /\ [][Next]_vars

\* max_concurrent values from below zero
ConcurrencyArgs == {-1, 0} \cup ConcurrencyChoices

\* the file size (in units of 1024 * 1024 bytes) the tasks are built for
TaskSize == 1

\* a task as test_download_pool builds it: (mock_download, (i, size),
\* {"file_size": size})
TestTask(size) == [hint |-> size, kwargs |-> [file_size |-> size]]

\* a task as export_media_organized builds it: (download_and_log,
\* (message, ..., file_size), {})
ExportTask(size) == [hint |-> size, kwargs |-> EmptyKwargs]

\* A pool built with any max_concurrent, and the batch of tasks, all built
\* the one or the other way, that download_batch will be given.
InitTasks ==
    /\ now = 0
    /\ NoSharing
    /\ \E b \in BurstChoices : limiter = RateLimiterInit(DefaultRate, b, TRUE)
    /\ metrics = DownloadMetricsInit
    /\ recorded = <<>>
    /\ stats = NoStats
    /\ tracker = NoTracker
    /\ \E c \in ConcurrencyArgs :
           IF DownloadPoolNew(c).kind = "raise"
           THEN /\ pool = NoPool
                /\ batch = [NoBatch EXCEPT !.pc = "unbuilt"]
           ELSE /\ pool = DownloadPoolInit(c)
                /\ \E n \in 0..MaxProcs : batch = [NoBatch EXCEPT !.n = n]
    /\ pc = [p \in Procs |-> "off"]
    /\ \E task \in {TestTask(TaskSize), ExportTask(TaskSize)} :
           loc = [p \in Procs |->
                    [LocInit("download") EXCEPT !.kwargs = task.kwargs, !.hint = task.hint]]
    /\ nCallers = 0
    /\ hist = <<>>
    /\ floods = NoFloods
    /\ retry = NoRetry
    /\ func = NoFunc

SpecTasks == InitTasks /\ [][Next]_vars

\* The same pool and batch, whose tasks may be cancelled; an operation that
\* fails raises the overload signal.
NextCancel ==
    \/ Tick
    \/ DownloadBatch
    \/ \E p \in Procs : DownloadEnter(p)
    \/ \E p \in Procs : WakeFromFloodWait(p)
    \/ \E p \in Procs : WakeFromBurstWait(p)
    \/ \E p \in Procs : OpReturns(p)
    \/ \E p \in Procs : OpRaises(p, FloodWaitError(1))
    \/ \E p \in Procs : Cancel(p)
    \/ DownloadBatchReturn

SpecCancel == Init /\ [][NextCancel]_vars

\* the event loop waits for its earliest timer: time passes while a coroutine
\* sleeps in acquire() or its operation is not over
TimePasses ==
    /\ \E p \in Procs :
           \/ pc[p] \in {"acq_flood", "acq_burst"} /\ ~Due(loc[p].wake, now)
           \/ pc[p] = "op" /\ now - loc[p].opStart < OpMinTime
    /\ now' = now + 1
    /\ UNCHANGED <<limiter, metrics, recorded, pool, pc, loc, batch, nCallers, func, heap, global_rate_limiter, pools, hist, floods,
                   retry, stats, tracker>>

\* what an operation raises in the batch that is run to its end: a failure
\* of its own, or the overload signal
BatchExceptions == {ValueError, FloodWaitError(1)}

\* the operation of coroutine p ends, returning or raising
OpEnds(p) == OpReturns(p) \/ \E e \in BatchExceptions : OpRaises(p, e)

NextBatch ==
    \/ Tick
    \/ TimePasses
    \/ DownloadBatch
    \/ \E p \in Procs : DownloadEnter(p)
    \/ \E p \in Procs : WakeFromFloodWait(p)
    \/ \E p \in Procs : WakeFromBurstWait(p)
    \/ \E p \in Procs : OpEnds(p)
    \/ DownloadBatchReturn

\* The pool and its batch, run by an event loop that lets time pass, resumes
\* every coroutine that can run, and whose operations all end.
SpecBatch ==
    /\ Init
    /\ [][NextBatch]_vars
    /\ WF_vars(TimePasses)
    /\ WF_vars(DownloadBatch)
    /\ \A p \in Procs : WF_vars(DownloadEnter(p))
    /\ \A p \in Procs : WF_vars(WakeFromFloodWait(p))
    /\ \A p \in Procs : WF_vars(WakeFromBurstWait(p))
    /\ \A p \in Procs : WF_vars(OpEnds(p))
    /\ WF_vars(DownloadBatchReturn)

\* what a function wrapped by async_retry may raise
RetryExceptions == {ValueError, IndexError, CancelledError}

\* the catch_exceptions async_retry is given: the default (Exception,), and
\* (ValueError,)
CatchChoices == {ExceptionInstances, {ValueError}}

\* One call of a wrapped function, for each configuration of async_retry.
InitRetry ==
    /\ now = 0
    /\ NoSharing
    /\ limiter = RateLimiterInit(DefaultRate, 1, TRUE)
    /\ metrics = DownloadMetricsInit
    /\ recorded = <<>>
    /\ stats = NoStats
    /\ tracker = NoTracker
    /\ pool = DownloadPoolInit(1)
    /\ batch = NoBatch
    /\ pc = [p \in Procs |-> "off"]
    /\ loc = [p \in Procs |-> LocInit("download")]
    /\ nCallers = 0
    /\ hist = <<>>
    /\ floods = NoFloods
    /\ \E m \in -1..MaxAttempts, d \in DelayChoices, x \in BOOLEAN, c \in CatchChoices :
           retry = RetryInit(m, d, x, c)
    /\ func = NoFunc

NextRetry ==
    \/ Tick
    \/ RetryCall
    \/ \E v \in ReturnValues : RetryFuncReturns(v)
    \/ \E e \in RetryExceptions : RetryFuncRaises(e)
    \/ RetryWake

SpecRetry == InitRetry /\ [][NextRetry]_vars

\* ------------------------------------------- the functions async_retry wraps

\* what leave_group returns: False, True
NotLeft == 0
Left == 1
\* what failing_function returns
Success == 1

\* what client.get_entity and the leave request may raise, and the
\* CancelledError of a task cancelled while it waits for them
LeaveExceptions == {ValueError, FloodWaitError(1), CancelledError}

\* mutant of LeaveGroupCatches: leave_group without its except clause
LeaveGroupCatchesNothing(e) == FALSE

\* leave_group, `except Exception as e`: the exceptions the clause handles
LeaveGroupCatches(e) == IsInstance(e, ExceptionInstances)

\* the wrapper invokes func: the body of leave_group runs up to
\* `await client.get_entity(group_id)`
LeaveGroupBegin ==
    /\ func.name = "leave_group"
    /\ retry.pc = "running"
    /\ func.pc = "idle"
    /\ func' = [func EXCEPT !.pc = "get_entity", !.runs = @ + 1]
    /\ UNCHANGED <<now, limiter, metrics, recorded, pool, pc, loc, batch, nCallers, heap,
                   global_rate_limiter, pools, hist, floods, retry, stats, tracker>>

\* an exception e is raised inside the try block of leave_group: the except
\* clause returns False, or e leaves leave_group and reaches the wrapper
LeaveGroupRaises(e) ==
    /\ func' = [func EXCEPT !.pc = "idle", !.raised = Append(@, e)]
    /\ retry' = IF LeaveGroupCatches(e)
                THEN WrapperReturns(retry, NotLeft)
                ELSE WrapperRaises(retry, e, now)
    /\ UNCHANGED <<now, limiter, metrics, recorded, pool, pc, loc, batch, nCallers, heap,
                   global_rate_limiter, pools, hist, floods, stats, tracker>>

\* client.get_entity returns a Channel or another entity: the confirmation
\* (the answer is what input() returns), then the leave request is issued
\* (LeaveChannelRequest for a Channel, else delete_dialog), or the call ends
\* with False
GetEntityReturns(channel, answer) ==
    /\ func.name = "leave_group"
    /\ func.pc = "get_entity"
    /\ IF func.confirm /\ ~answer
       THEN /\ func' = [func EXCEPT !.pc = "idle"]
            /\ retry' = WrapperReturns(retry, NotLeft)
       ELSE /\ func' = [func EXCEPT !.pc = "request", !.requests = @ + 1,
                                    !.request = IF channel THEN "LeaveChannelRequest"
                                                ELSE "delete_dialog"]
            /\ retry' = retry
    /\ UNCHANGED <<now, limiter, metrics, recorded, pool, pc, loc, batch, nCallers, heap,
                   global_rate_limiter, pools, hist, floods, stats, tracker>>

\* client.get_entity raises e
GetEntityRaises(e) ==
    /\ func.name = "leave_group"
    /\ func.pc = "get_entity"
    /\ LeaveGroupRaises(e)

\* the leave request (LeaveChannelRequest or delete_dialog) returns:
\* leave_group returns True
LeaveRequestReturns ==
    /\ func.name = "leave_group"
    /\ func.pc = "request"
    /\ func' = [func EXCEPT !.pc = "idle"]
    /\ retry' = WrapperReturns(retry, Left)
    /\ UNCHANGED <<now, limiter, metrics, recorded, pool, pc, loc, batch, nCallers, heap,
                   global_rate_limiter, pools, hist, floods, stats, tracker>>

\* the leave request raises e
LeaveRequestRaises(e) ==
    /\ func.name = "leave_group"
    /\ func.pc = "request"
    /\ LeaveGroupRaises(e)

\* the wrapper invokes failing_function of test_retry_decorator: it raises
\* ValueError on its first two runs and returns on the third
FailingFunction ==
    /\ func.name = "failing_function"
    /\ retry.pc = "running"
    /\ func' = [func EXCEPT !.runs = @ + 1,
                            !.raised = IF func.runs + 1 < 3 THEN Append(@, ValueError) ELSE @]
    /\ retry' = IF func.runs + 1 < 3
                THEN WrapperRaises(retry, ValueError, now)
                ELSE WrapperReturns(retry, Success)
    /\ UNCHANGED <<now, limiter, metrics, recorded, pool, pc, loc, batch, nCallers, heap,
                   global_rate_limiter, pools, hist, floods, stats, tracker>>

\* One call of a function the repository wraps with
\* async_retry(max_attempts=3): leave_group, with confirm or without, or
\* failing_function.
InitLeave ==
    /\ now = 0
    /\ NoSharing
    /\ limiter = RateLimiterInit(DefaultRate, 1, TRUE)
    /\ metrics = DownloadMetricsInit
    /\ recorded = <<>>
    /\ stats = NoStats
    /\ tracker = NoTracker
    /\ pool = DownloadPoolInit(1)
    /\ batch = NoBatch
    /\ pc = [p \in Procs |-> "off"]
    /\ loc = [p \in Procs |-> LocInit("download")]
    /\ nCallers = 0
    /\ hist = <<>>
    /\ floods = NoFloods
    /\ retry = RetryInit(3, 1, TRUE, ExceptionInstances)
    /\ \/ \E confirm \in BOOLEAN : func = FuncInit("leave_group", confirm)
       \/ func = FuncInit("failing_function", FALSE)

NextLeave ==
    \/ Tick
    \/ RetryCall
    \/ RetryWake
    \/ LeaveGroupBegin
    \/ \E channel, answer \in BOOLEAN : GetEntityReturns(channel, answer)
    \/ \E e \in LeaveExceptions : GetEntityRaises(e)
    \/ LeaveRequestReturns
    \/ \E e \in LeaveExceptions : LeaveRequestRaises(e)
    \/ FailingFunction

SpecLeave == InitLeave /\ [][NextLeave]_vars

\* -------------------------------------------------------- DownloadMetrics

\* somebody calls metrics.record_download(success, file_size, duration)
RecordDownloadCall(success, file_size, duration) ==
    /\ Len(recorded) < MaxRecords
    /\ metrics' = RecordDownload(metrics, success, file_size, duration)
    /\ recorded' = Recorded(recorded, success, file_size)
    /\ UNCHANGED <<now, limiter, pool, pc, loc, batch, nCallers, func, heap, global_rate_limiter, pools, hist, floods, retry, stats, tracker>>

\* somebody calls metrics.reset()
MetricsReset ==
    /\ metrics' = MetricsResetOn(metrics, now)
    /\ recorded' = <<>>
    /\ UNCHANGED <<now, limiter, pool, pc, loc, batch, nCallers, func, heap, global_rate_limiter, pools, hist, floods, retry, stats, tracker>>

\* A DownloadMetrics and its callers.
InitMetrics ==
    /\ now = 0
    /\ NoSharing
    /\ limiter = RateLimiterInit(DefaultRate, 1, TRUE)
    /\ metrics = DownloadMetricsInit
    /\ recorded = <<>>
    /\ stats = NoStats
    /\ tracker = NoTracker
    /\ pool = DownloadPoolInit(1)
    /\ batch = NoBatch
    /\ pc = [p \in Procs |-> "off"]
    /\ loc = [p \in Procs |-> LocInit("download")]
    /\ nCallers = 0
    /\ hist = <<>>
    /\ floods = NoFloods
    /\ retry = NoRetry
    /\ func = NoFunc

NextMetrics ==
    \/ \E success \in BOOLEAN, file_size \in SizeChoices, duration \in DurationChoices :
           RecordDownloadCall(success, file_size, duration)
    \/ MetricsReset

SpecMetrics == InitMetrics /\ [][NextMetrics]_vars

\* the seconds between start_time and a call of get_statistics
ElapsedChoices == {0, 1, 2}

\* somebody calls metrics.get_statistics(), elapsed seconds after start_time
GetStatisticsCall(elapsed) ==
    /\ stats' = [called |-> TRUE, of |-> metrics, elapsed |-> elapsed,
                 ret |-> GetStatistics(metrics, elapsed)]
    /\ metrics' = StatisticsRead(metrics)
    /\ UNCHANGED <<now, limiter, recorded, pool, pc, loc, batch, nCallers, func, heap,
                   global_rate_limiter, pools, hist, floods, retry, tracker>>

\* A DownloadMetrics whose callers record downloads of one size, read the
\* statistics and reset it.
NextStatistics ==
    \/ \E success \in BOOLEAN, duration \in DurationChoices :
           RecordDownloadCall(success, TaskSize, duration)
    \/ \E elapsed \in ElapsedChoices : GetStatisticsCall(elapsed)
    \/ MetricsReset

SpecStatistics == InitMetrics /\ [][NextStatistics]_vars

\* somebody calls metrics.log_statistics(): it calls get_statistics(), logs
\* the dictionary and returns nothing
LogStatistics ==
    /\ GetStatistics(metrics, now - metrics.start_time).kind = "return"
    /\ metrics' = StatisticsRead(metrics)
    /\ UNCHANGED <<now, limiter, recorded, pool, pc, loc, batch, nCallers, func, heap,
                   global_rate_limiter, pools, hist, floods, retry, stats, tracker>>

\* somebody calls pool.get_metrics(): return self.metrics.get_statistics()
GetMetrics == GetStatisticsCall(now - metrics.start_time)

\* A DownloadMetrics and the coroutine that uses it, as test_download_pool
\* uses its pool's.
InitReads ==
    /\ now = 0
    /\ NoSharing
    /\ limiter = RateLimiterInit(DefaultRate, 1, TRUE)
    /\ metrics = DownloadMetricsInit
    /\ recorded = <<>>
    /\ stats = NoStats
    /\ tracker = NoTracker
    /\ pool = DownloadPoolInit(1)
    /\ batch = NoBatch
    /\ pc = [p \in Procs |-> IF p = 1 THEN "idle" ELSE "off"]
    /\ loc = [p \in Procs |-> LocInit("download")]
    /\ nCallers = 0
    /\ hist = <<>>
    /\ floods = NoFloods
    /\ retry = NoRetry
    /\ func = NoFunc

\* The metrics are written, read and reset while time passes.
NextReads ==
    \/ Tick
    \/ \E success \in BOOLEAN, duration \in DurationChoices :
           RecordDownloadCall(success, TaskSize, duration)
    \/ GetStatisticsCall(now - metrics.start_time)
    \/ LogStatistics
    \/ GetMetrics
    \/ MetricsReset

SpecReads == InitReads /\ [][NextReads]_vars

\* -------------------------------------------------------- ProgressTracker

\* the totals a ProgressTracker is created with, and the increments update()
\* is given (test_progress_tracker: 100, and 25 and 0; 1 is the default)
TotalChoices == {0, 2, 100}
IncrementChoices == {-1, 0, 1, 25}

\* somebody calls tracker.update(increment)
TrackerUpdate(increment) ==
    /\ tracker # NoTracker
    /\ Len(tracker.updates) < MaxUpdates
    /\ tracker' = UpdateOn(tracker, increment, now)
    /\ UNCHANGED <<now, limiter, metrics, recorded, pool, pc, loc, batch, nCallers, func, heap, global_rate_limiter, pools, hist,
                   floods, retry, stats>>

\* somebody calls tracker.complete()
TrackerComplete ==
    /\ tracker # NoTracker
    /\ tracker.summaries = <<>>
    /\ tracker' = CompleteOn(tracker, now)
    /\ UNCHANGED <<now, limiter, metrics, recorded, pool, pc, loc, batch, nCallers, func, heap, global_rate_limiter, pools, hist,
                   floods, retry, stats>>

\* A ProgressTracker and its callers.
InitProgress ==
    /\ now = 0
    /\ NoSharing
    /\ limiter = RateLimiterInit(DefaultRate, 1, TRUE)
    /\ metrics = DownloadMetricsInit
    /\ recorded = <<>>
    /\ stats = NoStats
    /\ \E total \in TotalChoices : tracker = ProgressTrackerInit(total, now)
    /\ pool = DownloadPoolInit(1)
    /\ batch = NoBatch
    /\ pc = [p \in Procs |-> "off"]
    /\ loc = [p \in Procs |-> LocInit("download")]
    /\ nCallers = 0
    /\ hist = <<>>
    /\ floods = NoFloods
    /\ retry = NoRetry
    /\ func = NoFunc

NextProgress ==
    \/ Tick
    \/ \E increment \in IncrementChoices : TrackerUpdate(increment)
    \/ TrackerComplete

SpecProgress == InitProgress /\ [][NextProgress]_vars

\* ------------------------------------------------ the global rate limiter

\* RateLimiter(calls_per_second=1.0, burst_size=5) of get_rate_limiter()
GlobalBurstSize == 5

\* mutant of GetRateLimiter: every call builds a new instance
GetRateLimiterFresh(g, h) ==
    [ref |-> Len(h) + 1, global |-> Len(h) + 1,
     heap |-> Append(h, RateLimiterInit(DefaultRate, GlobalBurstSize, TRUE))]

\* get_rate_limiter(), with _global_rate_limiter = g and the objects h: the
\* reference it returns, and _global_rate_limiter and the objects afterwards
GetRateLimiter(g, h) ==
    IF g = None
    THEN [ref |-> Len(h) + 1, global |-> Len(h) + 1,
          heap |-> Append(h, RateLimiterInit(DefaultRate, GlobalBurstSize, TRUE))]
    ELSE [ref |-> g, global |-> g, heap |-> h]

\* a DownloadPool that is not built yet
Unbuilt ==
    [built |-> FALSE, pool |-> NoPool, rate_limiter |-> None, metrics |-> DownloadMetricsInit]

\* DownloadPool(max_concurrent=c): rate_limiter or get_rate_limiter(),
\* metrics or DownloadMetrics()
NewDownloadPool(k, c) ==
    /\ ~pools[k].built
    /\ LET r == GetRateLimiter(global_rate_limiter, heap)
       IN  /\ global_rate_limiter' = r.global
           /\ heap' = r.heap
           /\ pools' = [pools EXCEPT ![k] =
                          [built |-> TRUE, pool |-> DownloadPoolInit(c),
                           rate_limiter |-> r.ref, metrics |-> DownloadMetricsAt(now)]]
    /\ UNCHANGED <<now, limiter, metrics, recorded, pool, pc, loc, batch, nCallers, func, hist,
                   floods, retry, stats, tracker>>

\* rate_limiter = get_rate_limiter(), by a caller that will call acquire()
\* itself (forward_conversation)
GetLimiter(p) ==
    /\ pc[p] = "new"
    /\ loc[p].pool = 0
    /\ LET r == GetRateLimiter(global_rate_limiter, heap)
       IN  /\ global_rate_limiter' = r.global
           /\ heap' = r.heap
           /\ loc' = [loc EXCEPT ![p].rate_limiter = r.ref]
    /\ pc' = [pc EXCEPT ![p] = "idle"]
    /\ UNCHANGED <<now, limiter, metrics, recorded, pool, pools, batch, nCallers, func, hist,
                   floods, retry, stats, tracker>>

\* the limiter coroutine p calls: its own reference, or its pool's
LimiterOf(p) == IF loc[p].pool = 0 THEN loc[p].rate_limiter ELSE pools[loc[p].pool].rate_limiter

\* ghost: the flood_wait_until an acquire() entered at time t finds in force
\* (0: none)
SeenCooldown(lim, t) ==
    IF lim.flood_wait_until # None /\ t < lim.flood_wait_until
    THEN lim.flood_wait_until ELSE 0

\* download() of coroutine p (locals l) of a pool among ps leaves with the
\* exception e: the except block, the finally block, the release of the
\* semaphore
SharedDownloadFails(p, h, l, ps, e) ==
    LET k == l.pool
        ref == ps[k].rate_limiter
        x == ExceptBlock(h[ref], ps[k].metrics, l, now, e)
    IN  /\ heap' = [h EXCEPT ![ref] = x.lim]
        /\ pools' = [ps EXCEPT ![k] = [@ EXCEPT !.metrics = x.met, !.pool = GiveSlot(@)]]
        /\ floods' = IF x.flood THEN Notified(floods, now, x.wait_seconds) ELSE floods
        /\ pc' = [pc EXCEPT ![p] = "done"]
        /\ loc' = [loc EXCEPT ![p] =
                     [l EXCEPT !.exit = Raised(e),
                               !.notified = IF x.flood THEN x.wait_seconds ELSE None,
                               !.log = @ \o x.log \o <<"release">>]]

\* What follows a segment of acquire() run by coroutine p on the limiter it
\* calls, with result r, locals l and the pools ps.
SharedAfterAcquire(p, r, l, ps) ==
    LET h == [heap EXCEPT ![LimiterOf(p)] = r.lim]
    IN  CASE r.st \in {"flood_sleep", "burst_sleep"} ->
                /\ heap' = h
                /\ pools' = ps
                /\ pc' = [pc EXCEPT ![p] =
                            IF r.st = "flood_sleep" THEN "acq_flood" ELSE "acq_burst"]
                /\ loc' = [loc EXCEPT ![p] = [l EXCEPT !.wake = r.wake, !.slept = TRUE]]
                /\ UNCHANGED <<hist, floods>>
          [] r.st = "returned" ->
                /\ heap' = h
                /\ pools' = ps
                /\ hist' = Append(hist, [t |-> now, slept |-> l.slept, due |-> l.due,
                                         seen |-> l.seen, pool |-> l.pool])
                /\ IF l.pool = 0
                   THEN /\ pc' = [pc EXCEPT ![p] = "idle"]
                        /\ loc' = [loc EXCEPT ![p] = l]
                   ELSE /\ pc' = [pc EXCEPT ![p] = "op"]
                        /\ loc' = [loc EXCEPT ![p] =
                                     [l EXCEPT !.opStart = now, !.invoked = @ + 1,
                                               !.log = @ \o <<"token", "invoke">>]]
                /\ UNCHANGED floods
          [] OTHER ->   \* acquire() raised IndexError
                IF l.pool = 0
                THEN /\ heap' = h
                     /\ pools' = ps
                     /\ pc' = [pc EXCEPT ![p] = "failed"]
                     /\ loc' = [loc EXCEPT ![p] = [l EXCEPT !.exit = Raised(IndexError)]]
                     /\ UNCHANGED <<hist, floods>>
                ELSE /\ SharedDownloadFails(p, h, l, ps, IndexError)
                     /\ UNCHANGED hist

\* a direct caller calls rate_limiter.acquire()
SharedCallAcquire(p) ==
    /\ pc[p] = "idle"
    /\ loc[p].pool = 0
    /\ Len(hist) + Cardinality(InAcquire) < MaxCalls
    /\ LET lim == heap[LimiterOf(p)]
       IN  SharedAfterAcquire(p, AcquireEnter(lim, now),
                              [loc[p] EXCEPT !.due = CooldownEnd(floods, now),
                                             !.seen = SeenCooldown(lim, now),
                                             !.slept = FALSE],
                              pools)
    /\ UNCHANGED <<now, limiter, metrics, recorded, pool, global_rate_limiter, batch,
                   nCallers, func, retry, stats, tracker>>

\* pool.download(...) of coroutine p gets its slot and runs up to its first
\* suspension
SharedDownloadEnter(p) ==
    /\ pc[p] = "new"
    /\ loc[p].pool # 0
    /\ pools[loc[p].pool].built
    /\ SlotFree(pools[loc[p].pool].pool)
    /\ LET lim == heap[LimiterOf(p)]
       IN  SharedAfterAcquire(p, AcquireEnter(lim, now),
                              [loc[p] EXCEPT !.start_time = now,
                                             !.due = CooldownEnd(floods, now),
                                             !.seen = SeenCooldown(lim, now),
                                             !.log = <<"slot">>],
                              [pools EXCEPT ![loc[p].pool].pool = TakeSlot(@)])
    /\ UNCHANGED <<now, limiter, metrics, recorded, pool, global_rate_limiter, batch,
                   nCallers, func, retry, stats, tracker>>

\* asyncio.sleep(wait_time) of the flood wait ends
SharedWakeFromFloodWait(p) ==
    /\ pc[p] = "acq_flood"
    /\ Due(loc[p].wake, now)
    /\ SharedAfterAcquire(p, AcquireAfterFlood(heap[LimiterOf(p)], now), loc[p], pools)
    /\ UNCHANGED <<now, limiter, metrics, recorded, pool, global_rate_limiter, batch,
                   nCallers, func, retry, stats, tracker>>

\* asyncio.sleep(sleep_time) of the burst limit ends
SharedWakeFromBurstWait(p) ==
    /\ pc[p] = "acq_burst"
    /\ Due(loc[p].wake, now)
    /\ SharedAfterAcquire(p, AcquireAfterBurst(heap[LimiterOf(p)], now), loc[p], pools)
    /\ UNCHANGED <<now, limiter, metrics, recorded, pool, global_rate_limiter, batch,
                   nCallers, func, retry, stats, tracker>>

\* the operation returns: download() records the success in its pool's
\* metrics and returns
SharedOpReturns(p) ==
    /\ pc[p] = "op"
    /\ now - loc[p].opStart >= OpMinTime
    /\ LET duration == now - loc[p].start_time
           file_size == KwargsGet(loc[p].kwargs, "file_size", 0)
           k == loc[p].pool
       IN  /\ pools' = [pools EXCEPT ![k] =
                          [@ EXCEPT !.metrics = RecordDownload(@, TRUE, file_size, duration),
                                    !.pool = GiveSlot(@)]]
           /\ loc' = [loc EXCEPT ![p] =
                        [@ EXCEPT !.opOut = Returned(p), !.exit = Returned(p),
                                  !.file_size = file_size,
                                  !.log = @ \o <<"record_download", "return", "release">>]]
    /\ pc' = [pc EXCEPT ![p] = "done"]
    /\ UNCHANGED <<now, limiter, metrics, recorded, pool, heap, global_rate_limiter, batch,
                   nCallers, func, hist, floods, retry, stats, tracker>>

\* the operation raises e: download() runs its except block and re-raises
SharedOpRaises(p, e) ==
    /\ pc[p] = "op"
    /\ now - loc[p].opStart >= OpMinTime
    /\ SharedDownloadFails(p, heap, [loc[p] EXCEPT !.opOut = Raised(e)], pools, e)
    /\ UNCHANGED <<now, limiter, metrics, recorded, pool, global_rate_limiter, batch,
                   nCallers, func, hist, retry, stats, tracker>>

\* how many DownloadPools a scenario builds
MaxPools == 2

\* which pool each coroutine is a task of (0: it is a direct caller of
\* acquire()): one task in each of two pools and direct callers, or two tasks
\* in one pool, one in the other and direct callers
PoolOfChoices ==
    {[p \in Procs |-> IF p <= 2 THEN p ELSE 0],
     [p \in Procs |-> IF p <= 2 THEN 1 ELSE IF p = 3 THEN 2 ELSE 0]}

\* the global instance after earlier use: burst_size - 1 calls recorded at
\* time 0
UsedGlobalLimiter ==
    [RateLimiterInit(DefaultRate, GlobalBurstSize, TRUE)
        EXCEPT !.call_times = [i \in 1..(GlobalBurstSize - 1) |-> 0]]

\* MaxPools pools built without a limiter, each with its tasks, and callers
\* that fetch the global limiter themselves; nobody has called
\* get_rate_limiter() yet, or the global instance is there and was used.
InitShared ==
    /\ now = 0
    /\ \/ heap = <<>> /\ global_rate_limiter = None
       \/ heap = <<UsedGlobalLimiter>> /\ global_rate_limiter = 1
    /\ pools = [k \in 1..MaxPools |-> Unbuilt]
    /\ \E via \in PoolOfChoices :
           loc = [p \in Procs |->
                    [LocInit(IF via[p] = 0 THEN "acquire" ELSE "download")
                        EXCEPT !.pool = via[p]]]
    /\ pc = [p \in Procs |-> "new"]
    /\ limiter = RateLimiterInit(DefaultRate, 1, TRUE)
    /\ metrics = DownloadMetricsInit
    /\ recorded = <<>>
    /\ stats = NoStats
    /\ tracker = NoTracker
    /\ pool = DownloadPoolInit(1)
    /\ batch = NoBatch
    /\ nCallers = 0
    /\ hist = <<>>
    /\ floods = NoFloods
    /\ retry = NoRetry
    /\ func = NoFunc

\* pool k is built with max_concurrent = k; an operation that fails raises
\* the overload signal
NextShared ==
    \/ TimePasses
    \/ \E k \in 1..MaxPools : NewDownloadPool(k, k)
    \/ \E p \in Procs : GetLimiter(p)
    \/ \E p \in Procs : SharedCallAcquire(p)
    \/ \E p \in Procs : SharedDownloadEnter(p)
    \/ \E p \in Procs : SharedWakeFromFloodWait(p)
    \/ \E p \in Procs : SharedWakeFromBurstWait(p)
    \/ \E p \in Procs : SharedOpReturns(p)
    \/ \E p \in Procs : SharedOpRaises(p, FloodWaitError(1))

SpecShared == InitShared /\ [][NextShared]_vars

\* ---------------------------------------------------------------- claims

\* calls i and i + burst_size of the record are at least
\* burst_size / calls_per_second apart
WindowKept(i) ==
    LET b == limiter.burst_size
    IN  i + b <= Len(hist) =>
            (hist[i + b].t - hist[i].t) * limiter.calls_per_second[1]
                >= b * limiter.calls_per_second[2]

\* C6: a single caller that issues acquire() calls one after another, with no
\* set_flood_wait call: call i + burst_size is recorded at least
\* burst_size / calls_per_second after call i, and the first burst_size calls
\* of the fresh limiter are recorded without suspension.
C6_SequentialWindow ==
    (nCallers = 1 /\ floods.n = 0) =>
        /\ \A i \in 1..Len(hist) : WindowKept(i)
        /\ \A i \in 1..Len(hist) : i <= limiter.burst_size => ~hist[i].slept

\* C6's case: the single caller has been throttled on the call after its burst
C6_Witness ==
    /\ nCallers = 1 /\ floods.n = 0
    /\ Len(hist) > limiter.burst_size + 1
    /\ hist[limiter.burst_size + 1].slept

\* C7: an acquire() issued while a notified cooldown (set_flood_wait(s) at t,
\* issued in [t, t+s)) is running records its call no earlier than t + s.
C7_CooldownRespected ==
    \A i \in 1..Len(hist) : hist[i].t >= hist[i].due

\* C8: with no overload signal, any burst_size + 1 consecutive recorded calls
\* of concurrent callers span at least burst_size / calls_per_second.
C8_ConcurrentWindow ==
    floods.n = 0 => \A i \in 1..Len(hist) : WindowKept(i)

\* the coroutines inside download()'s slot-protected section
InSlot == {p \in Procs : pc[p] \in {"acq_flood", "acq_burst", "op"}}

CeilDiv(a, b) == (a + b - 1) \div b

\* x comes before y in the sequence sq, and both are there
Before(x, y, sq) ==
    \E i, j \in 1..Len(sq) : i < j /\ sq[i] = x /\ sq[j] = y

\* C1: the number of tasks inside the slot-protected section
\* (active_downloads) is between 0 and max_concurrent in every state, and a
\* batch of n tasks, each taking at least OpMinTime, does not complete in
\* less than ceil(n / max_concurrent) * OpMinTime.
C1_ConcurrencyBound ==
    /\ pool.active_downloads = Cardinality(InSlot)
    /\ pool.active_downloads >= 0
    /\ pool.active_downloads <= pool.max_concurrent
    /\ batch.pc = "returned" =>
           batch.end - batch.start
               >= CeilDiv(batch.n, pool.max_concurrent) * OpMinTime

\* C1's case: more tasks than slots, and the batch took exactly the bound
C1_Witness ==
    /\ batch.pc = "returned"
    /\ batch.n > pool.max_concurrent
    /\ pool.max_concurrent > 1
    /\ batch.end - batch.start = CeilDiv(batch.n, pool.max_concurrent) * OpMinTime

C3_SiblingsRun ==
    batch.pc = "returned" =>
        \A p \in 1..batch.n :
            /\ pc[p] = "done"
            /\ loc[p].invoked = 1
            /\ loc[p].opOut.kind # "none"
            /\ Before("slot", "token", loc[p].log)
            /\ Before("token", "invoke", loc[p].log)

\* C3's case: a task failed, and a sibling finished after it with its value
C3_Witness ==
    /\ batch.pc = "returned"
    /\ \E i, j \in 1..batch.n :
           /\ i < j
           /\ loc[batch.order[i]].exit.kind = "raise"
           /\ loc[batch.order[j]].exit.kind = "return"

\* C4: an operation that fails in the pool is invoked again, and its failure
\* is recorded and handed on only after maxAttempts invocations have failed.
C4_RetriedInPool ==
    \A p \in Procs :
        Before("invoke", "record_download", loc[p].log) /\ loc[p].exit.kind = "raise"
            => loc[p].invoked >= RETRY_MAX_ATTEMPTS

\* C9: download() of an operation that fails returns a failure value; it does
\* not raise the operation's exception.
C9_FailureReturned ==
    \A p \in Procs : loc[p].opOut.kind = "raise" => loc[p].exit.kind = "return"

\* the cooldown the pool is to notify for the exception e
SignaledCooldown(e) == IF e.has_seconds THEN e.seconds ELSE 60

\* C10: a task whose operation fails with an overload signal has called
\* set_flood_wait with the signalled cooldown (60 when the exception carries
\* none) before it recorded the failure and before the failure left download().
C10_OverloadNotified ==
    \A p \in Procs :
        (loc[p].opOut.kind = "raise" /\ ContainsFloodWaitError(loc[p].opOut.exc.name))
            => /\ loc[p].notified = SignaledCooldown(loc[p].opOut.exc)
               /\ Before("set_flood_wait", "record_download", loc[p].log)
               /\ Before("set_flood_wait", "raise", loc[p].log)
               /\ floods.n >= 1
               /\ floods.end >= loc[p].notified

\* C10's case: one overload signal with its cooldown, one without
C10_Witness ==
    \E p, q \in Procs :
        /\ loc[p].opOut = Raised(FloodWaitError(1)) /\ loc[p].notified = 1
        /\ loc[q].opOut = Raised(BareFloodWaitError) /\ loc[q].notified = 60

\* the invocations among outs that raised an exception the wrapper catches
CaughtFailures(r) ==
    {i \in 1..Len(r.outs) :
        r.outs[i].kind = "raise" /\ IsInstance(r.outs[i].exc, r.catch_exceptions)}

\* C5: with max_attempts >= 1, a function that raises a caught exception on
\* its first k < max_attempts invocations and then returns is invoked exactly
\* k + 1 times and the wrapper returns its value; a function that raises a
\* caught exception every time is invoked exactly max_attempts times and the
\* wrapper then raises that exception; no failure shows before that.
C5_RetryAttempts ==
    retry.max_attempts >= 1 =>
        LET k == Cardinality(CaughtFailures(retry))
        IN  /\ retry.pc = "returned" =>
                  /\ k < retry.max_attempts
                  /\ retry.calls = k + 1
                  /\ CaughtFailures(retry) = 1..k
                  /\ retry.result.kind = "return"
                  /\ retry.result = retry.outs[k + 1]
            /\ (retry.pc = "raised" /\ IsInstance(retry.result.exc, retry.catch_exceptions)) =>
                  /\ k = retry.max_attempts
                  /\ retry.calls = retry.max_attempts
                  /\ retry.result = retry.outs[retry.max_attempts]
            /\ retry.pc \in {"running", "sleep"} => retry.result = NoOutcome

\* C5's case: max_attempts = 3, two failures, then the value
C5_Witness ==
    /\ retry.max_attempts = 3
    /\ retry.pc = "returned"
    /\ retry.calls = 3
    /\ Cardinality(CaughtFailures(retry)) = 2

\* the tasks cancelled where they were suspended
CancelledTasks == {p \in Procs : pc[p] = "done" /\ loc[p].exit = Raised(CancelledError)}

\* C11: a slot taken by download() is given back whether the operation
\* returns, raises, or the task is cancelled while suspended: the slots taken
\* and active_downloads are those of the downloads in progress, and when none
\* is in progress all max_concurrent slots are free and active_downloads is 0.
C11_SlotGivenBack ==
    /\ pool.semaphore + Cardinality(InSlot) = pool.max_concurrent
    /\ pool.active_downloads = Cardinality(InSlot)
    /\ InSlot = {} => pool.semaphore = pool.max_concurrent /\ pool.active_downloads = 0
    /\ \A p \in Procs :
           (pc[p] = "done" /\ loc[p].log # <<>>) =>
               loc[p].log[Len(loc[p].log)] = "release"

\* C11's case: no download is in progress after one task was cancelled in the
\* limiter wait, one in its operation, and one ended by itself
C11_Witness ==
    /\ batch.pc = "returned"
    /\ InSlot = {}
    /\ \E p, q, r \in 1..batch.n :
           /\ p \in CancelledTasks /\ loc[p].slept /\ loc[p].invoked = 0
           /\ q \in CancelledTasks /\ loc[q].invoked = 1
           /\ loc[r].opOut.kind # "none"

\* the tasks whose download() ended with exits of the given kind, cancelled
\* tasks left out
Ended(kinds) ==
    {p \in Procs : pc[p] = "done" /\ loc[p].exit.kind \in kinds} \ CancelledTasks

\* the sum of file_size over the successful calls among rec
RECURSIVE SuccessBytes(_)
SuccessBytes(rec) ==
    IF rec = <<>> THEN 0
    ELSE (IF Head(rec).success THEN Head(rec).file_size ELSE 0) + SuccessBytes(Tail(rec))

\* C12: a task cancelled while suspended inside download() (waiting for a
\* slot, in acquire(), or in its operation) changes no metrics counter: the
\* counters are those of the tasks that were not cancelled.
C12_CancelledUncounted ==
    /\ metrics.total_downloads = Cardinality(Ended({"return", "raise"}))
    /\ metrics.successful_downloads = Cardinality(Ended({"return"}))
    /\ metrics.failed_downloads = Cardinality(Ended({"raise"}))
    /\ Len(recorded) = Cardinality(Ended({"return", "raise"}))
    /\ metrics.total_bytes = SuccessBytes(recorded)

\* C12's case: one task cancelled while it waited for a slot, one cancelled
\* in its operation, and one that ended by itself and was counted
C12_Witness ==
    /\ batch.pc = "returned"
    /\ metrics.total_downloads = 1
    /\ \E p, q \in CancelledTasks :
           /\ loc[p].log = <<>>
           /\ loc[q].invoked = 1

\* the calls among rec with the given success
CallsWith(rec, success) == {i \in 1..Len(rec) : rec[i].success = success}

\* the counters are those of the calls made since creation or the last reset
CountersOf(m, rec) ==
    /\ m.total_downloads = Len(rec)
    /\ m.successful_downloads = Cardinality(CallsWith(rec, TRUE))
    /\ m.failed_downloads = Cardinality(CallsWith(rec, FALSE))
    /\ m.total_downloads = m.successful_downloads + m.failed_downloads
    /\ m.total_bytes = SuccessBytes(rec)

\* no counter of m is above its value in n
NotAbove(m, n) ==
    /\ m.total_downloads <= n.total_downloads
    /\ m.successful_downloads <= n.successful_downloads
    /\ m.failed_downloads <= n.failed_downloads
    /\ m.total_bytes <= n.total_bytes

TasksWith(kind) == {p \in 1..batch.n : loc[p].opOut.kind = kind}

\* C14: after a download_batch of N tasks, none cancelled, on a pool whose
\* metrics nobody else uses, total_downloads has grown (from 0) by exactly N,
\* successful_downloads by the number of tasks whose operation returned and
\* failed_downloads by the number whose operation raised, for every
\* interleaving of the completions.
C14_NoLostUpdate ==
    batch.pc = "returned" =>
        /\ metrics.total_downloads = batch.n
        /\ metrics.successful_downloads = Cardinality(TasksWith("return"))
        /\ metrics.failed_downloads = Cardinality(TasksWith("raise"))

\* C14's case: three tasks ran two at a time and completed in another order
\* than they were given, some returning and some raising
C14_Witness ==
    /\ batch.pc = "returned"
    /\ batch.n = 3
    /\ pool.max_concurrent = 2
    /\ batch.order # <<1, 2, 3>>
    /\ TasksWith("return") # {}
    /\ TasksWith("raise") # {}
    /\ metrics.total_downloads = 3

\* 2 to the power n
RECURSIVE TwoTo(_)
TwoTo(n) == IF n = 0 THEN 1 ELSE 2 * TwoTo(n - 1)

\* C15: the delay slept between failed attempt k and attempt k + 1
\* (1 <= k < max_attempts) is base_delay * 2^(k-1) when exponential is true
\* and base_delay when it is false, however long attempt k ran; every backoff
\* sleep lasts at least its delay; one delay is slept per caught failure
\* before the last attempt, and none after the last failed attempt.
C15_BackoffDelays ==
    retry.max_attempts >= 1 =>
        /\ \A k \in 1..Len(retry.delays) :
               retry.delays[k] = IF retry.exponential
                                 THEN retry.base_delay * TwoTo(k - 1)
                                 ELSE retry.base_delay
        /\ Len(retry.delays) =
               Cardinality({k \in CaughtFailures(retry) : k < retry.max_attempts})
        /\ Len(retry.delays) <= retry.max_attempts - 1
        /\ retry.calls >= 1 => Len(retry.elapsed) = retry.calls - 1
        /\ \A k \in 1..Len(retry.elapsed) : retry.elapsed[k] >= retry.delays[k]
        /\ retry.pc \in {"returned", "raised"} => Len(retry.elapsed) = Len(retry.delays)

\* C15's case: base_delay 1, exponential, two failures then the value: the
\* sleeps were 1 and 2, 3 in total
C15_Witness ==
    /\ retry.base_delay = 1 /\ retry.exponential
    /\ retry.pc = "returned"
    /\ retry.calls = 3
    /\ retry.delays = <<1, 2>>
    /\ Sum(retry.elapsed) = 3

\* C16: when the wrapped function raises an exception that is no instance of
\* catch_exceptions, the wrapper propagates it at once: that invocation is the
\* last one, it was made once, no backoff sleep follows it, and the wrapper
\* has ended with that exception even if attempts remain.
C16_NonRetryablePropagates ==
    \A i \in 1..Len(retry.outs) :
        (retry.outs[i].kind = "raise" /\ retry.outs[i].exc \notin retry.catch_exceptions)
            => /\ i = Len(retry.outs)
               /\ retry.calls = i
               /\ retry.pc = "raised"
               /\ retry.result = retry.outs[i]
               /\ Len(retry.delays) = i - 1
               /\ Len(retry.elapsed) = i - 1

\* C16's case: (ValueError,) is caught, three attempts are allowed, and the
\* second invocation raised IndexError
C16_Witness ==
    /\ retry.max_attempts = 3
    /\ retry.catch_exceptions = {ValueError}
    /\ retry.outs = <<Raised(ValueError), Raised(IndexError)>>
    /\ retry.pc = "raised"

\* the attempt count an exception carries (None: it carries none)
AttemptsAttached(e) == IF "attempts" \in DOMAIN e THEN e.attempts ELSE None

\* C17: when all attempts of a retried function fail, the failure that
\* reaches the caller is the original failure of the last attempt, and it
\* carries the number of attempts made.
C17_FailureCarriesAttempts ==
    (retry.pc = "raised" /\ retry.calls = retry.max_attempts
        /\ retry.result.exc \in retry.catch_exceptions)
        => /\ retry.result = retry.outs[Len(retry.outs)]
           /\ AttemptsAttached(retry.result.exc) = retry.calls

\* the rate a is below the rate b (rates are <<numerator, denominator>>)
RateBelow(a, b) == a[1] * b[2] < b[1] * a[2]

\* the floor of the adaptive rate: 0.1 calls per second
RateFloor == <<1, 10>>

\* C18: on a limiter built with calls_per_second >= 0.1, calls_per_second is
\* never below 0.1, whatever number of set_flood_wait calls was made.
C18_RateFloored == ~RateBelow(limiter.calls_per_second, RateFloor)

\* a step of set_flood_wait
IsSetFloodWait == floods'.n = floods.n + 1

\* C19: calls_per_second never increases under acquire, set_flood_wait and
\* reset, and a set_flood_wait on an adaptive limiter whose rate is above the
\* floor leaves the rate strictly smaller.
C19_RateMonotone ==
    [][/\ ~RateBelow(limiter.calls_per_second, limiter'.calls_per_second)
       /\ (IsSetFloodWait /\ limiter.adaptive
              /\ RateBelow(RateFloor, limiter.calls_per_second))
           => RateBelow(limiter'.calls_per_second, limiter.calls_per_second)]_vars

\* C19's case: an adaptive limiter whose rate set_flood_wait has lowered from
\* the default has recorded calls and has then been reset
C19_Witness ==
    /\ limiter.adaptive
    /\ floods.n >= 1
    /\ limiter.calls_per_second = <<8, 10>>
    /\ limiter.burst_size > 0
    /\ Len(hist) > 0
    /\ limiter.call_times = <<>>
    /\ limiter.flood_wait_until = None

\* C20: acquire() never fails, for any burst_size >= 0 and any
\* calls_per_second > 0: no call of acquire() raises, and a call that ends
\* leaves its timestamp as the newest entry of call_times.
C20_AcquireNeverFails ==
    [][/\ \A p \in Procs : pc'[p] # "failed"
       /\ Len(hist') = Len(hist) + 1 =>
              /\ limiter'.call_times # <<>>
              /\ limiter'.call_times[Len(limiter'.call_times)] = now]_vars

\* C21: constructing a pool with max_concurrent <= 0 (0 as well as negative
\* values) fails at construction, so that no pool exists on which a submitted
\* task can never get a slot.
C21_PoolNeedsSlots ==
    batch.pc # "unbuilt" =>
        /\ pool.max_concurrent > 0
        /\ pool.semaphore + pool.active_downloads > 0

\* the sum of the size hints of the tasks in S
RECURSIVE HintSum(_)
HintSum(S) ==
    IF S = {} THEN 0
    ELSE LET p == CHOOSE q \in S : TRUE IN loc[p].hint + HintSum(S \ {p})

\* C22: for every task that succeeds in the pool, total_bytes grows by that
\* task's size hint, for the tasks test_download_pool builds and for the
\* tasks export_media_organized builds alike.
C22_BytesBySizeHint ==
    metrics.total_bytes = HintSum({p \in Procs : loc[p].exit.kind = "return"})

\* C23: the duration sequence holds exactly one entry for every recorded
\* successful outcome and none for a failed one, so that min, avg and max
\* download time are taken over all successful tasks and only those.
C23_OneDurationPerSuccess ==
    Len(metrics.download_times) = Cardinality(CallsWith(recorded, TRUE))

\* C24: get_statistics never divides by zero: success_rate is 0 when
\* total_downloads is 0 and 100 * successful_downloads / total_downloads
\* otherwise, so within 0..100, and the average speed is 0 when the elapsed
\* time is 0.
C24_StatisticsDefined ==
    stats.called =>
        /\ stats.ret.kind = "return"
        /\ LET d == stats.ret.val
               m == stats.of
           IN  /\ d.success_rate =
                      IF m.total_downloads = 0
                      THEN <<0, 1>>
                      ELSE <<100 * m.successful_downloads, m.total_downloads>>
               /\ d.success_rate[2] > 0
               /\ d.success_rate[1] >= 0
               /\ d.success_rate[1] <= 100 * d.success_rate[2]
               /\ stats.elapsed = 0 => d.average_speed_mbps = <<0, 1>>
               /\ d.average_speed_mbps[2] > 0
               /\ d.avg_download_time[2] > 0

\* C24's case: get_statistics was called on a collector that had recorded
\* nothing, with no time elapsed
C24_Witness ==
    /\ stats.called
    /\ stats.of.total_downloads = 0
    /\ stats.elapsed = 0
    /\ stats.ret.kind = "return"

\* a step of reset()
IsMetricsReset == recorded' = <<>> /\ UNCHANGED stats

\* C25: reset() after any sequence of record_download calls sets the four
\* counters to 0 and empties the duration sequence: the collector is in the
\* state of a freshly created one, from which every later sequence of
\* record_download calls proceeds.
C25_ResetIsFresh ==
    /\ [](recorded = <<>> => metrics = DownloadMetricsInit)
    /\ [][IsMetricsReset => metrics' = DownloadMetricsInit]_vars

\* C25's case: the collector had counted three downloads, with bytes and
\* durations, when its statistics were read; it has been reset since
C25_Witness ==
    /\ stats.called
    /\ stats.of.total_downloads = 3
    /\ stats.of.total_bytes > 0
    /\ stats.of.failed_downloads > 0
    /\ stats.of.download_times # <<>>
    /\ recorded = <<>>
    /\ metrics = DownloadMetricsInit

\* C26: after any sequence of update(n_1), ..., update(n_k) the completed
\* count is n_1 + ... + n_k, the completed count never decreases, and total
\* and start_time are never changed by update or complete.
C26_ProgressMonotone ==
    /\ [](tracker.current = Sum(tracker.updates))
    /\ [][/\ tracker'.current >= tracker.current
           /\ tracker'.total = tracker.total
           /\ tracker'.start_time = tracker.start_time]_vars

\* C27: each update() reports current/total, percentage and ETA, the ETA
\* being "unknown" exactly when the completed count is 0 and otherwise
\* elapsed / completed * total - elapsed; the tracker never raises, for any
\* total >= 0 and any completed count.
C27_ProgressReported ==
    /\ ~tracker.raised
    /\ Len(tracker.reports) = Len(tracker.updates)
    /\ \A i \in 1..Len(tracker.reports) :
           LET r == tracker.reports[i]
           IN  /\ r.total = tracker.total
               /\ r.percentage = <<r.current * 100, r.total>>
               /\ r.eta.known <=> r.current # 0
               /\ r.eta.known =>
                      r.eta.seconds =
                          Trunc(r.elapsed * r.total - r.elapsed * r.current, r.current)

\* a cooldown is in force: flood_wait_until is set and not reached
CooldownActive == limiter.flood_wait_until # None /\ now < limiter.flood_wait_until

\* C28: no token is granted inside a cooldown window: no acquire() records
\* its call at a time earlier than the cooldown deadline then in force, the
\* acquire() calls suspended in the burst wait when set_flood_wait installed
\* the cooldown included.
C28_NoTokenInCooldown ==
    [][Len(hist') = Len(hist) + 1 => ~CooldownActive]_vars

\* C29: acquire() clears the cooldown only when it has elapsed: whenever it
\* sets flood_wait_until from a deadline D to None, the time is >= D.
C29_ClearedWhenElapsed ==
    [][(limiter.flood_wait_until # None /\ limiter'.flood_wait_until = None)
          => now >= limiter.flood_wait_until]_vars

\* C30: an overload notification never moves the cooldown deadline earlier:
\* set_flood_wait called while a cooldown with deadline D is active leaves a
\* deadline >= D.
C30_DeadlineNotEarlier ==
    [][(IsSetFloodWait /\ CooldownActive)
          => limiter'.flood_wait_until >= limiter.flood_wait_until]_vars

\* C31: on a pool with max_concurrent >= 1 whose operations all end and whose
\* cooldowns are finite, every task of a download_batch eventually gets a
\* slot and a limiter token and finishes, and download_batch eventually
\* returns: no interleaving of slot waits, limiter waits and overload
\* notifications blocks the batch for ever.
C31_BatchCompletes ==
    <>(/\ batch.pc = "returned"
       /\ \A p \in 1..batch.n :
              /\ pc[p] = "done"
              /\ Before("slot", "token", loc[p].log)
              /\ loc[p].exit.kind # "none")

\* C31's case: three tasks on one slot; a task waited in a cooldown that a
\* sibling's overload signal had installed, a task waited in the burst limit,
\* and the batch has returned
C31_Witness ==
    /\ batch.pc = "returned"
    /\ batch.n = 3
    /\ pool.max_concurrent = 1
    /\ floods.n >= 1
    /\ \E p, q \in 1..batch.n :
           /\ loc[p].slept /\ loc[p].due > 0
           /\ loc[q].slept /\ loc[q].due = 0

\* the tasks whose operation has been invoked
Invoked == {p \in Procs : loc[p].invoked > 0}

\* C32: download() passes its gates in a fixed order: it holds a slot, then
\* completes exactly one acquire(), and only then invokes its operation, once;
\* so the operations invoked are never more than the calls recorded in the
\* limiter, each invocation comes after its recorded call, and no operation
\* runs without a slot.
C32_GatesInOrder ==
    /\ \A p \in Procs :
           /\ loc[p].invoked <= 1
           /\ loc[p].invoked = 1 =>
                  /\ Len(loc[p].log) >= 3
                  /\ SubSeq(loc[p].log, 1, 3) = <<"slot", "token", "invoke">>
                  /\ \E i \in 1..Len(hist) : hist[i].t = loc[p].opStart
                  /\ limiter.call_times # <<>>
                  /\ limiter.call_times[Len(limiter.call_times)] >= loc[p].opStart
           /\ loc[p].invoked = 0 => \A i \in 1..Len(loc[p].log) : loc[p].log[i] # "invoke"
    /\ Cardinality(Invoked) <= Len(hist)
    /\ pool.semaphore >= 0
    /\ Cardinality({p \in Procs : pc[p] = "op"}) <= pool.max_concurrent - pool.semaphore

\* C32's case: an operation runs after its task waited in acquire() for its
\* token, a sibling has finished, and a third task waits for the slot
C32_Witness ==
    \E p, q, r \in Procs :
        /\ pc[p] = "op" /\ loc[p].slept
        /\ pc[q] = "done" /\ loc[q].invoked = 1
        /\ pc[r] = "start" /\ loc[r].log = <<>>
        /\ pool.semaphore = 0

\* the rate after n reductions by 20%
RECURSIVE Reduced(_, _)
Reduced(rate, n) == IF n = 0 THEN rate ELSE Reduced(<<rate[1] * 8, rate[2] * 10>>, n - 1)

\* the tasks of pool k inside download()'s slot-protected section
InSlotOf(k) == {p \in InSlot : loc[p].pool = k}

\* every pool and every direct caller holds the one global instance, an
\* overload notified through any pool shows in it, an acquire() that finds a
\* cooldown in force records its call no earlier than the cooldown's
\* deadline, and each pool counts its own tasks only
OneSharedLimiter ==
    /\ Len(heap) <= 1
    /\ \A k \in 1..MaxPools :
           pools[k].built =>
               /\ global_rate_limiter # None
               /\ pools[k].rate_limiter = global_rate_limiter
               /\ pools[k].pool.active_downloads = Cardinality(InSlotOf(k))
               /\ pools[k].pool.active_downloads <= pools[k].pool.max_concurrent
               /\ pools[k].pool.semaphore
                      = pools[k].pool.max_concurrent - Cardinality(InSlotOf(k))
    /\ \A p \in Procs :
           loc[p].rate_limiter # None => loc[p].rate_limiter = global_rate_limiter
    /\ global_rate_limiter # None =>
           /\ heap[global_rate_limiter].calls_per_second = Reduced(DefaultRate, floods.n)
           /\ heap[global_rate_limiter].flood_wait_until \in {None, floods.last}
    /\ \A i \in 1..Len(hist) : hist[i].t >= hist[i].seen

\* C33: get_rate_limiter() returns the same RateLimiter instance on every
\* call and every DownloadPool built without a limiter uses it; so an overload
\* notified through one pool (cooldown and reduced calls_per_second) is in
\* force for the acquire() calls made through every other such pool and by
\* direct callers of get_rate_limiter(), which it delays, while each pool
\* enforces its own concurrency bound only.
C33_GlobalLimiterShared ==
    /\ []OneSharedLimiter
    /\ [][IsSetFloodWait =>
             /\ heap'[global_rate_limiter].flood_wait_until = floods'.last
             /\ floods'.last > now
             /\ RateBelow(heap'[global_rate_limiter].calls_per_second,
                          heap[global_rate_limiter].calls_per_second)]_vars

\* C33's case: a task of pool 1 notified an overload; a task of pool 2 and a
\* direct caller then found the cooldown in force, slept, and recorded their
\* calls
C33_Witness ==
    /\ \E q \in Procs : loc[q].pool = 1 /\ loc[q].notified # None
    /\ floods.n = 1
    /\ \E i, j \in 1..Len(hist) :
           /\ hist[i].pool = 2 /\ hist[i].seen > 0 /\ hist[i].slept
           /\ hist[j].pool = 0 /\ hist[j].seen > 0 /\ hist[j].slept

\* C34: for every max_attempts, 0 and negative values included, a call of the
\* wrapper invokes the wrapped operation at least once and ends by returning
\* what the operation returned or raising what it raised; it never returns a
\* result without having invoked the operation.
C34_InvokedAtLeastOnce ==
    retry.pc \in {"returned", "raised"} =>
        /\ retry.calls >= 1
        /\ retry.outs # <<>>
        /\ retry.result = retry.outs[Len(retry.outs)]

\* a step in which the operation of task p ends and download() leaves
OperationEnds(p) == pc[p] = "op" /\ pc'[p] = "done"

\* the step installs a cooldown or changes the rate
OverloadStateChanged ==
    \/ limiter'.calls_per_second # limiter.calls_per_second
    \/ limiter'.flood_wait_until \notin {None, limiter.flood_wait_until}

\* C35: download() changes the limiter's overload state only for overload
\* failures: when the operation returns, or raises an exception whose type
\* name does not contain FloodWaitError, calls_per_second is unchanged and the
\* task installs no cooldown; and on a limiter with adaptive=False,
\* set_flood_wait installs the cooldown and leaves calls_per_second and the
\* recorded call times unchanged.
C35_OverloadStateFrame ==
    [][/\ \A p \in Procs :
              (OperationEnds(p)
                  /\ ~(loc'[p].opOut.kind = "raise"
                         /\ ContainsFloodWaitError(loc'[p].opOut.exc.name)))
                  => /\ limiter' = limiter
                     /\ floods' = floods
       /\ OverloadStateChanged => IsSetFloodWait
       /\ (IsSetFloodWait /\ ~limiter.adaptive)
              => /\ limiter'.flood_wait_until = floods'.last
                 /\ limiter'.flood_wait_until > now
                 /\ limiter'.calls_per_second = limiter.calls_per_second
                 /\ limiter'.call_times = limiter.call_times]_vars

\* C35's case: on a limiter that is not adaptive, one task returned, one
\* failed with ValueError and one with the overload signal: the cooldown is
\* installed, the rate is the one the limiter was built with
C35_Witness ==
    /\ ~limiter.adaptive
    /\ \E p, q, r \in Procs :
           /\ loc[p].exit.kind = "return"
           /\ loc[q].exit = Raised(ValueError)
           /\ loc[r].exit = Raised(FloodWaitError(1))
    /\ floods.n = 1
    /\ limiter.flood_wait_until = floods.last
    /\ limiter.calls_per_second = DefaultRate
    /\ limiter.call_times # <<>>

\* the times of the last n calls recorded, oldest first
LastCalls(n) ==
    LET k == IF Len(hist) < n THEN Len(hist) ELSE n
    IN  [i \in 1..k |-> hist[Len(hist) - k + i].t]

\* C36: in every reachable state of a RateLimiter used by concurrent
\* acquire() callers, the recorded call times are in non-decreasing order,
\* oldest first: they are the times of the last burst_size calls recorded, and
\* the entry acquire() reads as the oldest is the earliest of them.
C36_CallTimesOrdered ==
    /\ \A i, j \in 1..Len(limiter.call_times) :
           i < j => limiter.call_times[i] <= limiter.call_times[j]
    /\ limiter.call_times = LastCalls(limiter.burst_size)
    /\ limiter.call_times # <<>> =>
           \A i \in 1..Len(limiter.call_times) :
               limiter.call_times[1] <= limiter.call_times[i]

\* C36's case: two callers on a limiter of burst_size 2, after an overload
\* signal; both have slept, older entries have been dropped, and the record
\* holds two different times
C36_Witness ==
    /\ nCallers = 2
    /\ limiter.burst_size = 2
    /\ floods.n >= 1
    /\ Len(hist) = 4
    /\ \E i, j \in 1..Len(hist) : i # j /\ hist[i].slept /\ hist[j].slept
    /\ Len(limiter.call_times) = 2
    /\ limiter.call_times[1] < limiter.call_times[2]

\* a step of reset() that changes the limiter
IsLimiterReset == limiter' # limiter /\ UNCHANGED <<now, pc, hist, floods>>

\* C37: in every reachable state of a RateLimiter at most burst_size call
\* times are recorded: recording a call when burst_size are stored drops the
\* oldest one, and reset() empties the record and clears the cooldown.
C37_CallTimesBounded ==
    /\ [](Len(limiter.call_times) <= limiter.burst_size)
    /\ [][/\ (Len(hist') = Len(hist) + 1 /\ Len(limiter.call_times) = limiter.burst_size)
                => limiter'.call_times = Append(Tail(limiter.call_times), now)
          /\ (Len(hist') = Len(hist) + 1 /\ Len(limiter.call_times) < limiter.burst_size)
                => limiter'.call_times = Append(limiter.call_times, now)
          /\ IsLimiterReset
                => limiter' = [limiter EXCEPT !.call_times = <<>>,
                                              !.flood_wait_until = None]]_vars

\* C37's case: a limiter of burst_size 2 recorded three calls, dropping the
\* oldest, was notified of an overload and reset, and has recorded one call
\* since
C37_Witness ==
    /\ limiter.burst_size = 2
    /\ Len(hist) = 4
    /\ floods.n >= 1
    /\ Len(limiter.call_times) = 1
    /\ limiter.flood_wait_until = None

\* a step of record_download
IsRecordDownload == Len(recorded') = Len(recorded) + 1

\* C38: reading the metrics is a pure read: get_statistics(),
\* log_statistics() and DownloadPool.get_metrics() leave every field of the
\* DownloadMetrics (the four counters, the durations, start_time) unchanged;
\* record_download and reset are the only operations that change them.
C38_ReadsArePure ==
    [][/\ metrics' # metrics => (IsRecordDownload \/ IsMetricsReset)
       /\ stats' # stats => metrics' = metrics]_vars

\* C38's case: the metrics were reset after time 0, recorded three downloads
\* with bytes and a duration, and were read later: they are what they were
\* when they were read
C38_Witness ==
    /\ stats.called
    /\ stats.elapsed > 0
    /\ stats.ret.kind = "return"
    /\ stats.of = metrics
    /\ metrics.start_time > 0
    /\ metrics.total_downloads = 3
    /\ metrics.failed_downloads = 1
    /\ metrics.total_bytes > 0
    /\ metrics.download_times # <<>>

\* the call of leave_group has ended
LeaveGroupEnded == func.name = "leave_group" /\ retry.pc \in {"returned", "raised"}

\* C39: each call of leave_group runs its body exactly once and never raises:
\* an exception from resolving the entity or from the leave request is caught
\* inside the function and turned into the result False, so that
\* async_retry(max_attempts=3) never makes a second attempt and the leave
\* request is issued at most once per call.
C39_LeaveGroupNeverRaises ==
    func.name = "leave_group" =>
        /\ retry.pc # "raised"
        /\ retry.pc # "sleep"
        /\ retry.calls <= 1
        /\ func.runs <= 1
        /\ func.requests <= 1
        /\ LeaveGroupEnded =>
               /\ func.runs = 1
               /\ func.raised # <<>> => retry.result = Returned(NotLeft)

\* C39 as the code has it: each call of leave_group runs its body exactly
\* once and raises no instance of Exception: such an exception from resolving
\* the entity or from the leave request is turned into the result False; only
\* an exception that is no instance of Exception (the CancelledError of a
\* cancelled task) leaves the call, at once; either way async_retry makes no
\* second attempt and the leave request is issued at most once per call.
C39_LeaveGroupOnce ==
    func.name = "leave_group" =>
        /\ retry.pc # "sleep"
        /\ retry.delays = <<>>
        /\ retry.calls <= 1
        /\ func.runs <= 1
        /\ func.requests <= 1
        /\ Len(func.raised) <= 1
        /\ LeaveGroupEnded =>
               /\ func.runs = 1
               /\ retry.calls = 1
               /\ retry.pc = "raised" <=>
                      (func.raised # <<>> /\ func.raised[1] \notin ExceptionInstances)
               /\ retry.pc = "raised" => retry.result = Raised(func.raised[1])
               /\ (func.raised # <<>> /\ func.raised[1] \in ExceptionInstances)
                      => retry.result = Returned(NotLeft)
               /\ func.raised = <<>> => retry.result \in {Returned(NotLeft), Returned(Left)}
               /\ retry.result = Returned(Left) => func.requests = 1

\* C39's case: the leave request was issued and raised the overload signal;
\* the call has ended with False after one run, two attempts unused
C39_Witness ==
    /\ LeaveGroupEnded
    /\ retry.max_attempts = 3
    /\ func.requests = 1
    /\ func.raised = <<FloodWaitError(1)>>
    /\ retry.result = Returned(NotLeft)
    /\ retry.calls = 1

====
